---------------------------- MODULE Spec2Model ----------------------------
(***************************************************************************)
(* Model of the hawki-model-repository update pipeline:                    *)
(*   run()  ->  sources  ->  deduplicateModels  ->  processor  ->  files   *)
(*                                                                         *)
(* Encoding of JavaScript values                                           *)
(*   string            a sequence of one-character strings                 *)
(*   optional number   0 stands for undefined (the sources map every falsy *)
(*                     number to undefined with `|| undefined`)            *)
(*   optional string   << >> stands for undefined (schemas forbid '')      *)
(*   optional object   << >> for undefined, <<r>> for the object r         *)
(*   tri-state flag    "true", "false", "undef"                            *)
(*   decimal string    its numeric value in hundredths, wrapped as <<n>>   *)
(***************************************************************************)
EXTENDS Integers, Sequences, FiniteSets, TLC

(***************************************************************************)
(* Bounds of the model                                                     *)
(***************************************************************************)
MaxRuns == 2
MaxFetch == 1

(***************************************************************************)
(* Characters and strings                                                  *)
(***************************************************************************)
LowerLetters == <<"a", "b", "c", "d", "e", "f", "g", "h", "i", "j", "k", "l", "m",
                  "n", "o", "p", "q", "r", "s", "t", "u", "v", "w", "x", "y", "z">>
UpperLetters == <<"A", "B", "C", "D", "E", "F", "G", "H", "I", "J", "K", "L", "M",
                  "N", "O", "P", "Q", "R", "S", "T", "U", "V", "W", "X", "Y", "Z">>
Digits == <<"0", "1", "2", "3", "4", "5", "6", "7", "8", "9">>

IndexOf(seq, c) == CHOOSE i \in 1..Len(seq) : seq[i] = c
IsIn(seq, c) == \E i \in 1..Len(seq) : seq[i] = c

\* String.prototype.toLowerCase on one character.
LowerChar(c) == IF IsIn(UpperLetters, c) THEN LowerLetters[IndexOf(UpperLetters, c)] ELSE c

\* UTF-16 code unit of a character: the order of Array.prototype.sort()
\* without a comparator.
CodeUnit(c) ==
    CASE IsIn(LowerLetters, c) -> 96 + IndexOf(LowerLetters, c)
      [] IsIn(UpperLetters, c) -> 64 + IndexOf(UpperLetters, c)
      [] IsIn(Digits, c)       -> 47 + IndexOf(Digits, c)
      [] c = " " -> 32 [] c = "-" -> 45 [] c = "." -> 46 [] c = "/" -> 47
      [] c = ":" -> 58 [] c = "_" -> 95

\* Primary collation weight of a character under String.prototype.localeCompare:
\* white space < punctuation (_ - : . /) < digits < letters, case ignored.
CollationRank(c) ==
    CASE IsIn(LowerLetters, c) -> 20 + IndexOf(LowerLetters, c)
      [] IsIn(UpperLetters, c) -> 20 + IndexOf(UpperLetters, c)
      [] IsIn(Digits, c)       -> 9 + IndexOf(Digits, c)
      [] c = " " -> 1 [] c = "_" -> 2 [] c = "-" -> 3 [] c = ":" -> 4
      [] c = "." -> 5 [] c = "/" -> 6

\* /[a-z0-9]/
IsAlnum(c) == IsIn(LowerLetters, c) \/ IsIn(Digits, c)

ToLowerCase(s) == [i \in 1..Len(s) |-> LowerChar(s[i])]

EndsWith(s, suffix) ==
    /\ Len(s) >= Len(suffix)
    /\ SubSeq(s, Len(s) - Len(suffix) + 1, Len(s)) = suffix

StartsWith(s, prefix) ==
    /\ Len(s) >= Len(prefix)
    /\ SubSeq(s, 1, Len(prefix)) = prefix

\* First index at which two strings differ under key function rank, or 0.
RECURSIVE FirstDiff(_, _, _)
FirstDiff(a, b, i) ==
    IF i > Len(a) \/ i > Len(b) THEN 0
    ELSE IF CollationRank(a[i]) # CollationRank(b[i]) THEN i
    ELSE FirstDiff(a, b, i + 1)

RECURSIVE FirstCaseDiff(_, _, _)
FirstCaseDiff(a, b, i) ==
    IF i > Len(a) \/ i > Len(b) THEN 0
    ELSE IF a[i] # b[i] THEN i
    ELSE FirstCaseDiff(a, b, i + 1)

\* a.localeCompare(b): -1, 0 or 1.  Primary weights decide first, then the
\* shorter string, then case (lower case before upper case).
LocaleCompare(a, b) ==
    LET d == FirstDiff(a, b, 1) IN
    IF d # 0
    THEN (IF CollationRank(a[d]) < CollationRank(b[d]) THEN -1 ELSE 1)
    ELSE IF Len(a) # Len(b)
    THEN (IF Len(a) < Len(b) THEN -1 ELSE 1)
    ELSE LET e == FirstCaseDiff(a, b, 1) IN
         IF e = 0 THEN 0
         ELSE IF LowerChar(a[e]) = a[e] THEN -1 ELSE 1

RECURSIVE CodeUnitLess(_, _, _)
CodeUnitLess(a, b, i) ==
    IF i > Len(a) THEN i <= Len(b)
    ELSE IF i > Len(b) THEN FALSE
    ELSE IF CodeUnit(a[i]) # CodeUnit(b[i]) THEN CodeUnit(a[i]) < CodeUnit(b[i])
    ELSE CodeUnitLess(a, b, i + 1)

(***************************************************************************)
(* Array helpers                                                           *)
(***************************************************************************)
Range(s) == {s[i] : i \in 1..Len(s)}

\* Array.prototype.includes
Includes(s, x) == \E i \in 1..Len(s) : s[i] = x

\* Array.from(new Set(xs)): first occurrences, in order.
RECURSIVE Unique(_)
Unique(s) ==
    IF s = << >> THEN << >>
    ELSE LET front == Unique(SubSeq(s, 1, Len(s) - 1))
             last  == s[Len(s)]
         IN IF Includes(front, last) THEN front ELSE Append(front, last)

\* Stable insertion of x into the sorted sequence s; Before(u, v) is
\* "the comparator puts u strictly before v".
RECURSIVE InsertBy(_, _, _)
InsertBy(Before(_, _), s, x) ==
    IF s = << >> THEN <<x>>
    ELSE IF Before(x, s[Len(s)])
         THEN Append(InsertBy(Before, SubSeq(s, 1, Len(s) - 1), x), s[Len(s)])
         ELSE Append(s, x)

\* Array.prototype.sort with a comparator (stable).
RECURSIVE SortBy(_, _)
SortBy(Before(_, _), s) ==
    IF s = << >> THEN << >>
    ELSE InsertBy(Before, SortBy(Before, SubSeq(s, 1, Len(s) - 1)), s[Len(s)])

(***************************************************************************)
(* deduplicateProviders (sources/deduplicateModels.ts)                     *)
(***************************************************************************)
\* p.price?.currency
PriceCurrency(p) == IF p.price = << >> THEN "undefined" ELSE p.price[1].currency

\* Mutant of SameProvider: the currencies are not compared.
SameProvider_IgnoresCurrency(p, provider) ==
    \/ p.providerId = provider.providerId
    \/ /\ p.providerName # << >> /\ provider.providerName # << >>
       /\ Len(p.providerName) > 5
       /\ StartsWith(provider.providerName, p.providerName)
    \/ /\ p.providerName # << >> /\ provider.providerName # << >>
       /\ Len(provider.providerName) > 5
       /\ StartsWith(p.providerName, provider.providerName)

\* The predicate of deduplicated.find(...): is the already collected
\* offering p "the same provider" as the incoming offering?
SameProvider(p, provider) ==
    /\ PriceCurrency(p) = PriceCurrency(provider)
    /\ \/ p.providerId = provider.providerId
       \/ /\ p.providerName # << >> /\ provider.providerName # << >>
          /\ Len(p.providerName) > 5
          /\ StartsWith(provider.providerName, p.providerName)
       \/ /\ p.providerName # << >> /\ provider.providerName # << >>
          /\ Len(provider.providerName) > 5
          /\ StartsWith(p.providerName, provider.providerName)

\* Mutant of MergeLimit: a known incoming value always replaces the existing
\* one.
MergeLimit_IncomingWins(existing, incoming) ==
    IF incoming # 0 THEN incoming ELSE existing

\* Merge of one limit: the incoming value replaces an unknown or larger one.
MergeLimit(existing, incoming) ==
    IF incoming # 0 /\ (existing = 0 \/ incoming < existing)
    THEN incoming ELSE existing

\* Merge of one price component (decimal strings compared by parseFloat).
MergePriceValue(existing, incoming) ==
    IF incoming # << >> /\ (existing = << >> \/ incoming[1] > existing[1])
    THEN incoming ELSE existing

MergePrice(existing, incoming) ==
    IF incoming = << >> THEN existing
    ELSE LET base == IF existing = << >>
                     THEN [currency |-> incoming[1].currency,
                           input |-> << >>, output |-> << >>]
                     ELSE existing[1]
         IN << [currency |-> base.currency,
                input  |-> MergePriceValue(base.input, incoming[1].input),
                output |-> MergePriceValue(base.output, incoming[1].output)] >>

\* The body of `if (existing) { ... }`.
MergeProvider(existing, provider) ==
    [providerId    |-> IF Len(provider.providerId) < Len(existing.providerId)
                       THEN provider.providerId ELSE existing.providerId,
     providerName  |-> IF provider.providerName # << >>
                          /\ (existing.providerName = << >>
                              \/ Len(provider.providerName) > Len(existing.providerName))
                       THEN provider.providerName ELSE existing.providerName,
     contextLength |-> MergeLimit(existing.contextLength, provider.contextLength),
     inputLimit    |-> MergeLimit(existing.inputLimit, provider.inputLimit),
     outputLimit   |-> MergeLimit(existing.outputLimit, provider.outputLimit),
     price         |-> MergePrice(existing.price, provider.price)]

\* Index of the first entry of deduplicated matching provider, or 0.
RECURSIVE FindProvider(_, _, _)
FindProvider(deduplicated, provider, i) ==
    IF i > Len(deduplicated) THEN 0
    ELSE IF SameProvider(deduplicated[i], provider) THEN i
    ELSE FindProvider(deduplicated, provider, i + 1)

RECURSIVE DeduplicateProviders(_)
DeduplicateProviders(providers) ==
    IF providers = << >> THEN << >>
    ELSE LET deduplicated == DeduplicateProviders(SubSeq(providers, 1, Len(providers) - 1))
             provider     == providers[Len(providers)]
             k            == FindProvider(deduplicated, provider, 1)
         IN IF k = 0 THEN Append(deduplicated, provider)
            ELSE [deduplicated EXCEPT ![k] = MergeProvider(deduplicated[k], provider)]

(***************************************************************************)
(* deduplicateModels (sources/deduplicateModels.ts)                        *)
(***************************************************************************)
freeSuffix == <<":", "f", "r", "e", "e">>

\* id.toLowerCase().replace(/[^a-z0-9]/g, '')
RECURSIVE KeepAlnum(_)
KeepAlnum(s) ==
    IF s = << >> THEN << >>
    ELSE IF IsAlnum(s[1]) THEN <<s[1]>> \o KeepAlnum(Tail(s))
    ELSE KeepAlnum(Tail(s))

makeIdComparable(id) == KeepAlnum(ToLowerCase(id))

isFreeModel(model) == EndsWith(ToLowerCase(model.id), freeSuffix)

\* Mutant of StripFree: the stripped id is pushed as alias but not assigned
\* to model.id.
StripFree_KeepsSuffix(model) ==
    IF isFreeModel(model)
    THEN [model EXCEPT !.aliases =
            Append(@, SubSeq(model.id, 1, Len(model.id) - Len(freeSuffix)))]
    ELSE model

\* Lines 12-16: strip the ':free' suffix and push the stripped id as alias.
StripFree(model) ==
    IF isFreeModel(model)
    THEN LET stripped == SubSeq(model.id, 1, Len(model.id) - Len(freeSuffix))
         IN [model EXCEPT !.id = stripped, !.aliases = Append(@, stripped)]
    ELSE model

LongerFirst(a, b) == Len(a) > Len(b)

SameElements(a, b) == Range(a) = Range(b)

\* Optional array `x ?? []`.
OrEmpty(opt) == IF opt = << >> THEN << >> ELSE opt[1]

\* Lines 53-57 spread existingModel.parameters! and model.parameters!: the
\* spread of undefined raises a TypeError.
ParametersThrow(existing, model) ==
    /\ ~SameElements(OrEmpty(existing.parameters), OrEmpty(model.parameters))
    /\ (existing.parameters = << >> \/ model.parameters = << >>)

\* Mutant of MergeFlag: the first known value wins, also over a later false.
MergeFlag_FirstKnownWins(existing, incoming) ==
    IF existing = "undef" THEN incoming ELSE existing

\* Lines 67-75, one flag.
MergeFlag(existing, incoming) ==
    IF existing = "false" \/ incoming = "false" THEN "false"
    ELSE IF existing = "undef" THEN incoming
    ELSE existing

\* Lines 77-86; a date is a positive day number, 0 is undefined.
MergeKnowledge(existing, incoming) ==
    IF existing # 0 /\ incoming # 0
    THEN (IF incoming < existing THEN incoming ELSE existing)
    ELSE IF existing = 0 /\ incoming # 0 THEN incoming
    ELSE existing

\* Lines 60-65: { ...model.defaultParameters, ...(existing ?? {}) }
MergeDefaultParameters(existing, incoming) ==
    IF incoming = << >> THEN existing
    ELSE LET e == IF existing = << >> THEN [k \in {} |-> 0] ELSE existing[1]
             m == incoming[1]
         IN << [k \in (DOMAIN e) \cup (DOMAIN m) |->
                    IF k \in DOMAIN e THEN e[k] ELSE m[k]] >>

\* Lines 24-86: merge model (already stripped, free says whether it carried
\* the suffix) into the canonical model of its key class.
MergeModel(existingModel, model, free) ==
    [existingModel EXCEPT
        !.aliases = SortBy(LongerFirst, Unique(existingModel.aliases \o model.aliases)),
        !.freeProviders =
            IF free
            THEN << DeduplicateProviders(OrEmpty(existingModel.freeProviders) \o model.providers) >>
            ELSE @,
        !.providers =
            IF free THEN @
            ELSE DeduplicateProviders(existingModel.providers \o model.providers),
        !.description =
            IF existingModel.description = << >> /\ model.description # << >>
            THEN model.description ELSE @,
        !.input =
            IF SameElements(Unique(existingModel.input), Unique(model.input)) THEN @
            ELSE Unique(existingModel.input \o model.input),
        !.output =
            IF SameElements(Unique(existingModel.output), Unique(model.output)) THEN @
            ELSE Unique(existingModel.output \o model.output),
        !.parameters =
            IF SameElements(OrEmpty(existingModel.parameters), OrEmpty(model.parameters)) THEN @
            ELSE << Unique(OrEmpty(existingModel.parameters) \o OrEmpty(model.parameters)) >>,
        !.defaultParameters = MergeDefaultParameters(@, model.defaultParameters),
        !.reasoning   = MergeFlag(@, model.reasoning),
        !.openWeights = MergeFlag(@, model.openWeights),
        !.toolCalling = MergeFlag(@, model.toolCalling),
        !.knowledge   = MergeKnowledge(@, model.knowledge)]

\* Mutant of FindKey: no key is ever found in the Map.
FindKey_NeverFound(byId, key, i) == 0

\* Index of the entry of byId whose comparable key is key, or 0
\* (modelsById.has / modelsById.get).
RECURSIVE FindKey(_, _, _)
FindKey(byId, key, i) ==
    IF i > Len(byId) THEN 0
    ELSE IF makeIdComparable(byId[i].id) = key THEN i
    ELSE FindKey(byId, key, i + 1)

\* The fold of lines 9-87.  The result is [threw, models]: threw is TRUE
\* when a merge raised the TypeError of ParametersThrow, models is
\* Array.from(modelsById.values()) (insertion order of the Map).
RECURSIVE DedupFold(_)
DedupFold(models) ==
    IF models = << >> THEN [threw |-> FALSE, models |-> << >>]
    ELSE LET acc   == DedupFold(SubSeq(models, 1, Len(models) - 1))
             raw   == models[Len(models)]
             free  == isFreeModel(raw)
             model == StripFree(raw)
             k     == FindKey(acc.models, makeIdComparable(model.id), 1)
         IN IF acc.threw THEN acc
            ELSE IF k = 0 THEN [acc EXCEPT !.models = Append(@, model)]
            ELSE IF ParametersThrow(acc.models[k], model) THEN [acc EXCEPT !.threw = TRUE]
            ELSE [acc EXCEPT !.models[k] = MergeModel(acc.models[k], model, free)]

deduplicateModels(models) == DedupFold(models)

(***************************************************************************)
(* Source adapters (sources/modelsDev, sources/openRouter, util.ts)        *)
(***************************************************************************)
\* Index of the last '/' of s, or 0.
RECURSIVE LastSlash(_, _)
LastSlash(s, i) ==
    IF i = 0 THEN 0 ELSE IF s[i] = "/" THEN i ELSE LastSlash(s, i - 1)

\* "namespace/model" => "model", "model" => "model"
getModelBaseId(modelId) ==
    SubSeq(modelId, LastSlash(modelId, Len(modelId)) + 1, Len(modelId))

\* [ ... ].filter(Boolean).map(s => s.toLowerCase()), through a Set, sorted
\* by descending length.
IdAliases(candidates) ==
    SortBy(LongerFirst,
           Unique(SelectSeq([i \in 1..Len(candidates) |-> ToLowerCase(candidates[i])],
                            LAMBDA a : a # << >>)))

\* `flag || undefined` on an optional boolean.
TrueOrUndefined(flag) == IF flag = "true" THEN "true" ELSE "undef"

InputModalities == {"text", "image", "file", "audio", "video"}
OutputModalities == {"text", "image", "embeddings"}

\* normalizeModels of modelsDevSource.ts, one record.
NormalizeModelsDev(model) ==
    LET id == getModelBaseId(model.id) IN
    [id          |-> id,
     aliases     |-> IdAliases(<<id, model.id>>),
     name        |-> model.name,
     description |-> << >>,
     input       |-> SelectSeq(model.input, LAMBDA m : m \in InputModalities),
     output      |-> SelectSeq(model.output, LAMBDA m : m \in OutputModalities),
     reasoning   |-> TrueOrUndefined(model.reasoning),
     toolCalling |-> TrueOrUndefined(model.tool_call),
     openWeights |-> TrueOrUndefined(model.open_weights),
     knowledge   |-> model.knowledge,
     parameters  |-> << (IF model.temperature = "true" THEN <<"temperature">> ELSE << >>)
                        \o (IF model.tool_call = "true" THEN <<"tools">> ELSE << >>) >>,
     defaultParameters |-> << >>,
     providers   |-> << [providerId    |-> model.provider.id,
                         providerName  |-> model.provider.name,
                         contextLength |-> model.limitContext,
                         inputLimit    |-> 0,
                         outputLimit   |-> model.limitOutput,
                         price |-> << [currency |-> "usd",
                                       input    |-> model.costInput,
                                       output   |-> model.costOutput] >>] >>,
     freeProviders |-> << >>]

\* ProviderIdentifier.OpenRouter
OpenRouterId == <<"o", "p", "e", "n", "r", "o", "u", "t", "e", "r">>

\* normalizeModels of openRouterSource.ts, one record.  pricing.prompt and
\* pricing.completion are given in units of 1e-8 per token, so that the
\* multiplication by 1000000 yields hundredths per 1M tokens.
NormalizeOpenRouter(model) ==
    LET id == getModelBaseId(model.id) IN
    [id          |-> id,
     aliases     |-> IdAliases(<<id, model.id, model.canonical_slug,
                                 getModelBaseId(model.canonical_slug),
                                 model.hugging_face_id,
                                 getModelBaseId(model.hugging_face_id)>>),
     name        |-> model.name,
     description |-> model.description,
     input       |-> model.input,
     output      |-> model.output,
     reasoning   |-> IF Includes(OrEmpty(model.supported_parameters), "reasoning")
                        \/ Includes(OrEmpty(model.supported_parameters), "include_reasoning")
                     THEN "true" ELSE "undef",
     toolCalling |-> IF Includes(OrEmpty(model.supported_parameters), "tools")
                        \/ Includes(OrEmpty(model.supported_parameters), "tool_choice")
                     THEN "true" ELSE "undef",
     openWeights |-> "undef",
     knowledge   |-> model.created,
     parameters  |-> model.supported_parameters,
     defaultParameters |-> model.default_parameters,
     providers   |-> << [providerId    |-> OpenRouterId,
                         providerName  |-> << >>,
                         contextLength |-> IF model.topContextLength # 0
                                           THEN model.topContextLength
                                           ELSE model.context_length,
                         inputLimit    |-> model.promptTokens,
                         outputLimit   |-> model.completionTokens,
                         price |-> << [currency |-> "usd",
                                       input    |-> model.pricingPrompt,
                                       output   |-> IF model.pricingCompletion = << >>
                                                    THEN <<0>> ELSE model.pricingCompletion] >>] >>,
     freeProviders |-> << >>]

\* Upstream payloads the two APIs may deliver (ids that isJunkModelId rejects
\* are not listed: both adapters drop them before normalizing).
ModelsDevUpstream ==
    LET base == [id |-> <<"a", "b">>, name |-> "AB", reasoning |-> "true",
                 tool_call |-> "false", temperature |-> "true",
                 open_weights |-> "undef", knowledge |-> 5,
                 input |-> <<"text", "pdf">>, output |-> <<"text">>,
                 costInput |-> <<100>>, costOutput |-> <<200>>,
                 limitContext |-> 8, limitOutput |-> 4,
                 provider |-> [id |-> <<"p", "a">>, name |-> <<"P", "a">>]]
    IN { base,
         [base EXCEPT !.costInput = <<150>>],
         [base EXCEPT !.id = <<"x", "/", "A", "-", "b">>, !.tool_call = "true",
                      !.provider = [id |-> <<"p", "b">>, name |-> <<"P", "b">>]],
         [base EXCEPT !.id = <<"c", "1">>, !.name = "C1", !.costInput = << >>,
                      !.limitContext = 0] }

OpenRouterUpstream ==
    LET base == [id |-> <<"v", "/", "a", "b">>, canonical_slug |-> <<"v", "/", "a", "b">>,
                 hugging_face_id |-> << >>, name |-> "V AB",
                 description |-> <<"x", " ", " ", "y">>, created |-> 7,
                 pricingPrompt |-> <<120>>, pricingCompletion |-> << >>,
                 context_length |-> 16, topContextLength |-> 0,
                 promptTokens |-> 0, completionTokens |-> 2,
                 input |-> <<"text", "image">>, output |-> <<"text">>,
                 supported_parameters |-> << <<"temperature", "tools">> >>,
                 default_parameters |-> << >>]
    IN { base,
         [base EXCEPT !.id = <<"v", "/", "a", "b", ":", "f", "r", "e", "e">>,
                      !.pricingPrompt = <<0>>],
         [base EXCEPT !.id = <<"w", "/", "a", ":", "c">>,
                      !.canonical_slug = <<"w", "/", "a", ":", "c">>,
                      !.name = "W AC", !.description = <<"y">>,
                      !.supported_parameters = << >>, !.context_length = -1],
         [base EXCEPT !.id = <<"c", "1">>, !.canonical_slug = <<"c", "1">>,
                      !.name = "C1", !.description = <<"x">>,
                      !.supported_parameters = << >>] }

\* All sequences of pairwise different elements of S of length at most n.
RECURSIVE SeqsUpTo(_, _)
SeqsUpTo(S, n) ==
    IF n = 0 THEN {<< >>}
    ELSE LET shorter == SeqsUpTo(S, n - 1)
         IN shorter \cup {Append(q, x) : q \in shorter, x \in S}

DistinctSeqsUpTo(S, n) ==
    {q \in SeqsUpTo(S, n) : \A i, j \in 1..Len(q) : i # j => q[i] # q[j]}

MapSeq(Op(_), s) == [i \in 1..Len(s) |-> Op(s[i])]

(***************************************************************************)
(* Run options (updateModelList.ts) and external services                  *)
(***************************************************************************)
additionalLocales == <<"de">>
additionalCurrencies == <<"eur">>
\* options.modelDenyList is not set by updateModelList.ts: undefined.
modelDenyList == << >>

\* Outcomes of generateAiDescription: null or a summary.
AiOutcomes == { << >>, << <<"g">> >> }

\* The DeepL translation of a text.
Translate(text) == <<"D", "E", ":">> \o text

\* Exchange rate usd -> eur in percent, as delivered by the currency API.
ExchangeRate == 90

\* convertCurrency: amount * rate.  The prices of the upstream payloads are
\* multiples of 10 hundredths, so the product is a whole number of hundredths.
convertCurrency(amount) == (amount * ExchangeRate) \div 100

(***************************************************************************)
(* Processing steps (processing/steps)                                     *)
(***************************************************************************)
IsWhitespace(c) == c \in {" ", "nl"}
IsZeroWidth(c) == c = "zw"

\* description.trim() === ''
IsBlank(text) == \A i \in 1..Len(text) : IsWhitespace(text[i])

\* generateDescription.  existingModel is << >> or <<record>>, ai is the
\* outcome of the awaited generateAiDescription call.
generateDescription(sourceModel, existingModel, newModel, ai) ==
    LET existingDescription ==
            IF existingModel = << >> THEN << >> ELSE existingModel[1].description
        description ==
            IF ~IsBlank(sourceModel.description) THEN << sourceModel.description >>
            ELSE IF existingDescription # << >> THEN << existingDescription[1].en >>
            ELSE ai
    IN IF description = << >> \/ description[1] = << >> THEN newModel
       ELSE IF existingDescription # << >>
            \* Object.assign(descriptions, existingModel.description)
            THEN [newModel EXCEPT !.description = existingDescription]
            ELSE [newModel EXCEPT !.description = << [en |-> description[1], de |-> << >>] >>]

\* The price table generateInitialPricing builds for one source offering.
PriceTable(price) ==
    LET sourceCurrency == price.currency
        hasAny  == price.input # << >> \/ price.output # << >>
        targets == {t \in Range(additionalCurrencies) : t # sourceCurrency /\ hasAny}
        convert(v) == IF v = << >> THEN << >> ELSE << convertCurrency(v[1]) >>
    IN [c \in {sourceCurrency} \cup targets |->
            IF c = sourceCurrency
            THEN [currency |-> c, input |-> price.input, output |-> price.output]
            ELSE [currency |-> c, input |-> convert(price.input),
                  output |-> convert(price.output)]]

generateInitialPricing(sourceModel, newModel) ==
    LET priced == SelectSeq(sourceModel.providers, LAMBDA q : q.price # << >>)
    IN [newModel EXCEPT !.providers =
            [i \in 1..Len(priced) |-> [priced[i] EXCEPT !.price = PriceTable(priced[i].price[1])]]]

\* Math.min over the positive values of field among providers, 0 if none.
MinPositive(values) ==
    LET pos == {v \in values : v > 0}
    IN IF pos = {} THEN 0 ELSE CHOOSE v \in pos : \A w \in pos : v <= w

generateSummaryInformation(newModel) ==
    [newModel EXCEPT
        !.inputLimit    = MinPositive({q.inputLimit : q \in Range(newModel.providers)}),
        !.outputLimit   = MinPositive({q.outputLimit : q \in Range(newModel.providers)}),
        !.contextLength = MinPositive({q.contextLength : q \in Range(newModel.providers)})]

newAndChangedSteps == <<"generateDescription", "generateInitialPricing", "generateSummaryInformation">>
batchSteps == <<"generateDescriptionTranslations", "cleanupDescriptions">>
outputStructureSteps == <<"extractProviderInformation">>

\* Dispatch of one newAndChanged step.
ApplyStep(step, sourceModel, existingModel, newModel, ai) ==
    CASE step = "generateDescription" -> generateDescription(sourceModel, existingModel, newModel, ai)
      [] step = "generateInitialPricing" -> generateInitialPricing(sourceModel, newModel)
      [] step = "generateSummaryInformation" -> generateSummaryInformation(newModel)

\* A ProcessingNoChangeStep.  None is implemented in the repository; the
\* type only fixes that the step returns the updated existing record.
noChangeStep(sourceModel, existingModel) == existingModel

\* generateDescriptionTranslations: every model with an English description
\* and no German one receives the translation.
generateDescriptionTranslations(models) ==
    [i \in 1..Len(models) |->
        IF models[i].description # << >>
           /\ models[i].description[1].en # << >>
           /\ models[i].description[1].de = << >>
        THEN [models[i] EXCEPT !.description[1].de = Translate(models[i].description[1].en)]
        ELSE models[i]]

\* .replace(/\s+/g, ' '): every run of white space becomes one space.
RECURSIVE CollapseWhitespace(_)
CollapseWhitespace(text) ==
    IF text = << >> THEN << >>
    ELSE IF IsWhitespace(text[1])
         THEN IF Len(text) > 1 /\ IsWhitespace(text[2])
              THEN CollapseWhitespace(Tail(text))
              ELSE <<" ">> \o CollapseWhitespace(Tail(text))
         ELSE <<text[1]>> \o CollapseWhitespace(Tail(text))

RECURSIVE TrimStart(_)
TrimStart(text) ==
    IF text # << >> /\ IsWhitespace(text[1]) THEN TrimStart(Tail(text)) ELSE text

RECURSIVE TrimEnd(_)
TrimEnd(text) ==
    IF text # << >> /\ IsWhitespace(text[Len(text)])
    THEN TrimEnd(SubSeq(text, 1, Len(text) - 1)) ELSE text

CleanText(text) ==
    TrimEnd(TrimStart(SelectSeq(CollapseWhitespace(text), LAMBDA c : ~IsZeroWidth(c))))

cleanupDescriptions(models) ==
    [i \in 1..Len(models) |->
        IF models[i].description = << >> THEN models[i]
        ELSE [models[i] EXCEPT !.description[1].en = CleanText(@),
                               !.description[1].de = CleanText(@)]]

ApplyBatchStep(step, models) ==
    CASE step = "generateDescriptionTranslations" -> generateDescriptionTranslations(models)
      [] step = "cleanupDescriptions" -> cleanupDescriptions(models)

\* providerNameMap of sources/types.ts, restricted to the provider ids the
\* upstream payloads use.
providerNameMap(providerId) ==
    IF providerId = OpenRouterId
    THEN <<"O", "p", "e", "n", "R", "o", "u", "t", "e", "r">>
    ELSE << >>

\* The name extractProviderInformation determines for one offering.
ResolvedName(provider) ==
    IF provider.providerName # << >> THEN provider.providerName
    ELSE providerNameMap(provider.providerId)

\* All offerings of all models, in iteration order.
RECURSIVE AllProviders(_)
AllProviders(models) ==
    IF models = << >> THEN << >>
    ELSE models[1].providers \o AllProviders(Tail(models))

\* Map.set on a Map kept as a sequence of [id, name] in insertion order.
RECURSIVE MapSet(_, _, _)
MapSet(map, entry, overwrite) ==
    IF map = << >> THEN <<entry>>
    ELSE IF map[1].id = entry.id
         THEN (IF overwrite THEN <<entry>> \o Tail(map) ELSE map)
         ELSE <<map[1]>> \o MapSet(Tail(map), entry, overwrite)

RECURSIVE CollectProviders(_)
CollectProviders(offerings) ==
    IF offerings = << >> THEN << >>
    ELSE LET front == CollectProviders(SubSeq(offerings, 1, Len(offerings) - 1))
             o     == offerings[Len(offerings)]
         IN IF ResolvedName(o) = << >> THEN front
            ELSE MapSet(front, [id |-> o.providerId, name |-> ResolvedName(o)], FALSE)

RECURSIVE ImportProviders(_, _)
ImportProviders(map, existing) ==
    IF existing = << >> THEN map
    ELSE ImportProviders(MapSet(map, existing[1], TRUE), Tail(existing))

\* Mutant of IdBefore: the comparator never orders two entries.
IdBefore_NeverBefore(a, b) == FALSE

IdBefore(a, b) == LocaleCompare(a.id, b.id) < 0

\* Mutant of extractProviderInformation: the existing directory is appended
\* to the collected one instead of being imported into the map.
extractProviderInformation_AppendsExisting(structure) ==
    [models |->
        [i \in 1..Len(structure.models) |->
            [structure.models[i] EXCEPT !.providers =
                [j \in 1..Len(@) |-> [@[j] EXCEPT !.providerName = << >>]]]],
     providers |->
        SortBy(IdBefore,
               CollectProviders(AllProviders(structure.models)) \o structure.providers)]

extractProviderInformation(structure) ==
    [models |->
        [i \in 1..Len(structure.models) |->
            [structure.models[i] EXCEPT !.providers =
                [j \in 1..Len(@) |-> [@[j] EXCEPT !.providerName = << >>]]]],
     providers |->
        SortBy(IdBefore,
               ImportProviders(CollectProviders(AllProviders(structure.models)),
                               structure.providers))]

(***************************************************************************)
(* processor (processing/processor.ts)                                     *)
(***************************************************************************)
ProviderIdBefore(a, b) == LocaleCompare(a.providerId, b.providerId) < 0
CodeUnitBefore(a, b) == CodeUnitLess(a, b, 1)

\* calculateModelHash: the SHA-256 digest of the canonical serialization is
\* represented by the canonical record itself (aliases sorted by code unit,
\* providers sorted by providerId), tagged "sha256".
calculateModelHash(model) ==
    <<"sha256", [model EXCEPT !.aliases = SortBy(CodeUnitBefore, model.aliases),
                              !.providers = SortBy(ProviderIdBefore, model.providers)]>>

\* hashes[id] ?? '-1'
NoHash == <<"-1">>
HashOf(map, id) == IF id \in DOMAIN map THEN map[id] ELSE NoHash

\* Mutant of Put: the assignment drops every other entry of the map.
Put_DropsOthers(map, id, value) == [k \in {id} |-> value]

\* hashes[id] = value
Put(map, id, value) ==
    [k \in (DOMAIN map) \cup {id} |-> IF k = id THEN value ELSE map[k]]

EmptyMap == [k \in {} |-> NoHash]

Ids(models) == [i \in 1..Len(models) |-> models[i].id]

\* models.find(m => m.id === id): index of the first match, or 0.
RECURSIVE FindId(_, _, _)
FindId(models, id, i) ==
    IF i > Len(models) THEN 0
    ELSE IF models[i].id = id THEN i
    ELSE FindId(models, id, i + 1)

\* Lines 59-64: the work-in-progress record a candidate starts with.
InitialNewModel(sourceModel, now) ==
    [id |-> sourceModel.id, aliases |-> sourceModel.aliases, name |-> sourceModel.name,
     input |-> sourceModel.input, output |-> sourceModel.output,
     reasoning |-> sourceModel.reasoning, toolCalling |-> sourceModel.toolCalling,
     openWeights |-> sourceModel.openWeights, knowledge |-> sourceModel.knowledge,
     parameters |-> sourceModel.parameters,
     defaultParameters |-> sourceModel.defaultParameters,
     freeProviders |-> sourceModel.freeProviders,
     description |-> << >>, lastImportedAt |-> now, providers |-> << >>,
     deprecated |-> FALSE, contextLength |-> 0, inputLimit |-> 0, outputLimit |-> 0]

\* Mutant of MarkMissingDeprecated: the flag is never set.
MarkMissingDeprecated_NoFlag(existing, sourceIds) == existing

\* Lines 36 and 45-49: flag every existing model whose id no source delivered.
MarkMissingDeprecated(existing, sourceIds) ==
    LET missing == SelectSeq(Ids(existing), LAMBDA id : ~Includes(sourceIds, id))
    IN [i \in 1..Len(existing) |->
            IF Includes(missing, existing[i].id)
               /\ FindId(existing, existing[i].id, 1) = i
            THEN [existing[i] EXCEPT !.deprecated = TRUE]
            ELSE existing[i]]

\* Mutant of AddBackExisting: existing models are not added back.
AddBackExisting_Dropped(list, existing) == list

\* Mutant of AddBackExisting: every record added back is stamped with the
\* time of the run.
RECURSIVE AddBackExisting_Restamped(_, _)
AddBackExisting_Restamped(list, existing) ==
    IF existing = << >> THEN list
    ELSE AddBackExisting_Restamped(
            IF FindId(list, existing[1].id, 1) = 0
            THEN Append(list, [existing[1] EXCEPT !.lastImportedAt = @ + 1])
            ELSE list,
            Tail(existing))

\* Lines 97-102: append every existing model whose id is not yet in the list.
RECURSIVE AddBackExisting(_, _)
AddBackExisting(list, existing) ==
    IF existing = << >> THEN list
    ELSE AddBackExisting(
            IF FindId(list, existing[1].id, 1) = 0 THEN Append(list, existing[1]) ELSE list,
            Tail(existing))

\* Mutant of SortModels: the list is left in push order.
SortModels_Unsorted(list) == list

\* Line 105: newModelsList.sort((a, b) => a.id.localeCompare(b.id))
SortModels(list) == SortBy(IdBefore, list)

\* Lines 97-110.
AssembleStructure(list, existing, providers) ==
    [models |-> SortModels(AddBackExisting(list, existing)), providers |-> providers]

(***************************************************************************)
(* State                                                                   *)
(***************************************************************************)
VARIABLES
    catalogFile,    \* content of options.storageFilePath (models.json)
    hashFile,       \* content of options.storageHashFilePath
    noChangeSteps,  \* steps.noChange handed to processor
    runs,           \* number of runs started
    pc,             \* position of run() / processor()
    allModels,      \* run: allModels
    sourceModels,   \* processor: sourceModels (run: modelsFiltered)
    existingModels, \* processor: existingModels (objects of storage.models)
    hashes,         \* the in-memory hash map
    newModelsList,  \* processor: newModelsList
    mIdx,           \* index of the candidate the per-model loop is at
    sIdx,           \* index of the step that is awaited
    newModel,       \* processor: newModel / existingModel of the iteration
    structure,      \* processor: structure after assembly
    trace,          \* history: what the current run has done, in order
    prev,           \* history: both files as they were when the run started, and
                    \* what the sources returned to the run before if it succeeded
    dedupCall,      \* one call of deduplicateModels: argument and results
    providersCall,  \* one call of deduplicateProviders: argument, loop state
    appCache,       \* the cache file, the AppCache object and its calls
    structureCall   \* one call of an output-structure step: argument and result

vars == <<catalogFile, hashFile, noChangeSteps, runs, pc, allModels,
          sourceModels, existingModels, hashes, newModelsList, mIdx, sIdx,
          newModel, structure, trace, prev, dedupCall, providersCall, appCache,
          structureCall>>

\* The functions that are also examined on their own, outside of a run.
units == <<dedupCall, providersCall, appCache, structureCall>>

config == <<noChangeSteps>>
files == <<catalogFile, hashFile>>

EmptyStructure == [models |-> << >>, providers |-> << >>]

NoChangeConfigs == { << >>, <<"noChangeStep">> }

Event(kind, name, id, ids, wipIn, wipOut) ==
    [kind |-> kind, name |-> name, id |-> id, ids |-> ids,
     wipIn |-> wipIn, wipOut |-> wipOut]

\* What the sources have returned to the current run so far.
Fetched ==
    LET events == SelectSeq(trace, LAMBDA e : e.kind = "fetched")
    IN [i \in 1..Len(events) |-> [name |-> events[i].name, models |-> events[i].wipIn]]

\* No call of a unit is in progress.
NoCall == [stage |-> "none"]

UnitsIdle ==
    /\ dedupCall = NoCall
    /\ providersCall = NoCall
    /\ appCache = NoCall
    /\ structureCall = NoCall

PipelineInit ==
    /\ catalogFile = EmptyStructure
    /\ hashFile = EmptyMap
    /\ noChangeSteps \in NoChangeConfigs
    /\ runs = 0
    /\ pc = "idle"
    /\ allModels = << >>
    /\ sourceModels = << >>
    /\ existingModels = << >>
    /\ hashes = EmptyMap
    /\ newModelsList = << >>
    /\ mIdx = 0
    /\ sIdx = 0
    /\ newModel = << >>
    /\ structure = EmptyStructure
    /\ trace = << >>
    /\ prev = [catalog |-> EmptyStructure, hashes |-> EmptyMap, fetched |-> << >>]

Init == PipelineInit /\ UnitsIdle

(***************************************************************************)
(* run (processing/run.ts)                                                 *)
(***************************************************************************)
\* A new process starts run(): nothing of an earlier run's memory is left.
StartRun ==
    /\ pc \in {"idle", "done", "failed"}
    /\ runs < MaxRuns
    /\ runs' = runs + 1
    /\ pc' = "modelsDevSource"
    /\ allModels' = << >>
    /\ sourceModels' = << >>
    /\ existingModels' = << >>
    /\ hashes' = EmptyMap
    /\ newModelsList' = << >>
    /\ mIdx' = 0
    /\ sIdx' = 0
    /\ newModel' = << >>
    /\ structure' = EmptyStructure
    /\ trace' = << >>
    /\ prev' = [catalog |-> catalogFile, hashes |-> hashFile,
                fetched |-> IF pc = "done" THEN << Fetched >> ELSE << >>]
    /\ UNCHANGED <<files, config, units>>

\* Lines 85-88, first source: modelsDevSource returns its deduplicated list.
ModelsDevSourceReturns ==
    /\ pc = "modelsDevSource"
    /\ \E upstream \in DistinctSeqsUpTo(ModelsDevUpstream, MaxFetch) :
          /\ allModels' = allModels
                       \o deduplicateModels(MapSeq(NormalizeModelsDev, upstream)).models
          /\ trace' = Append(trace, Event("fetched", "modelsDevSource", << >>,
                                          Ids(upstream), upstream, << >>))
    /\ pc' = "openRouterSource"
    /\ UNCHANGED <<files, config, units, runs, sourceModels, existingModels, hashes,
                   newModelsList, mIdx, sIdx, newModel, structure, prev>>

\* Line 91-93: model.id = model.id.toLowerCase()
LowercaseIds(models) == [i \in 1..Len(models) |-> [models[i] EXCEPT !.id = ToLowerCase(@)]]

\* Lines 97-102.
FilterDenied(models, deny) ==
    IF deny = << >> THEN models
    ELSE SelectSeq(models, LAMBDA m : ~Includes(deny[1], m.id))

\* The last source returns (lines 85-88) and run() continues without
\* suspension: ids are lower-cased, the list is deduplicated and filtered
\* (lines 90-102), both files are read (lines 104-105) and processor flags
\* the models missing from the sources (processor lines 32-51).  A TypeError
\* of deduplicateModels lands in the catch block of run().
OpenRouterSourceReturns ==
    /\ pc = "openRouterSource"
    /\ \E upstream \in DistinctSeqsUpTo(OpenRouterUpstream, MaxFetch) :
         LET all     == allModels \o MapSeq(NormalizeOpenRouter, upstream)
             result  == deduplicateModels(LowercaseIds(all))
             models  == FilterDenied(result.models, modelDenyList)
             fetched == Append(trace, Event("fetched", "openRouterSource", << >>,
                                            Ids(upstream), upstream, << >>))
         IN /\ allModels' = all
            /\ IF result.threw
               THEN /\ pc' = "failed"
                    /\ trace' = Append(fetched, Event("failed", "deduplicateModels",
                                                      << >>, << >>, << >>, << >>))
                    /\ UNCHANGED <<sourceModels, existingModels, hashes, mIdx, sIdx>>
               ELSE /\ sourceModels' = models
                    /\ existingModels' = MarkMissingDeprecated(catalogFile.models, Ids(models))
                    /\ hashes' = hashFile
                    /\ mIdx' = 1
                    /\ sIdx' = 1
                    /\ pc' = IF models = << >> THEN "batch" ELSE "model"
                    /\ trace' = fetched
    /\ UNCHANGED <<files, config, units, runs, newModelsList, newModel, structure, prev>>

\* The existing record of a candidate as the loop sees it: << >> or <<record>>.
ExistingOf(existing, id) ==
    LET k == FindId(existing, id, 1)
    IN IF k = 0 THEN << >> ELSE << existing[k] >>

\* Mutant of IsUnchanged: the hash comparison is inverted.
IsUnchanged_Inverted(existing, map, sourceModel) ==
    /\ Includes(Ids(existing), sourceModel.id)
    /\ HashOf(map, sourceModel.id) # calculateModelHash(sourceModel)

\* Mutant of IsUnchanged: the hash comparison is forgotten.
IsUnchanged_IdOnly(existing, map, sourceModel) ==
    Includes(Ids(existing), sourceModel.id)

\* Line 66-68: the candidate is known and its hash is the stored one.
IsUnchanged(existing, map, sourceModel) ==
    /\ Includes(Ids(existing), sourceModel.id)
    /\ HashOf(map, sourceModel.id) = calculateModelHash(sourceModel)

\* Mutant of NextModelPc: the loop is left after the first candidate.
NextModelPc_Early == "batch"

\* The position after the iteration of candidate mIdx.
NextModelPc == IF mIdx = Len(sourceModels) THEN "batch" ELSE "model"

\* Lines 54-83: the synchronous head of one loop iteration, up to the first
\* awaited step or to `continue`.
ClassifyModel ==
    /\ pc = "model"
    /\ LET sourceModel == sourceModels[mIdx]
           unchanged   == IsUnchanged(existingModels, hashes, sourceModel)
       IN /\ trace' = Append(trace, Event("classify",
                                IF unchanged THEN "UNCHANGED" ELSE "NEW_OR_CHANGED",
                                sourceModel.id, << >>, << >>, << >>))
          /\ IF unchanged
             THEN /\ UNCHANGED hashes
                  /\ IF noChangeSteps # << >>
                     THEN /\ newModel' = ExistingOf(existingModels, sourceModel.id)
                          /\ pc' = "noChangeStep"
                          /\ UNCHANGED mIdx
                     ELSE /\ newModel' = << >>
                          /\ pc' = NextModelPc
                          /\ mIdx' = mIdx + 1
             ELSE /\ hashes' = Put(hashes, sourceModel.id, calculateModelHash(sourceModel))
                  /\ newModel' = << InitialNewModel(sourceModel, runs) >>
                  /\ pc' = "step"
                  /\ UNCHANGED mIdx
    /\ sIdx' = 1
    /\ UNCHANGED <<files, config, units, runs, allModels, sourceModels, existingModels,
                   newModelsList, structure, prev>>

\* generateDescription awaits generateAiDescription only when neither the
\* source nor the previous record has a description.
NeedsAi(step, sourceModel, existingModel) ==
    /\ step = "generateDescription"
    /\ IsBlank(sourceModel.description)
    /\ (IF existingModel = << >> THEN TRUE ELSE existingModel[1].description = << >>)

\* Lines 85-89: the awaited newAndChanged step returns; after the last one
\* the record is pushed.
StepReturns ==
    /\ pc = "step"
    /\ LET sourceModel   == sourceModels[mIdx]
           existingModel == ExistingOf(existingModels, sourceModel.id)
           step          == newAndChangedSteps[sIdx]
       IN \E ai \in (IF NeedsAi(step, sourceModel, existingModel)
                      THEN AiOutcomes ELSE {<< >>}) :
            /\ LET out == ApplyStep(step, sourceModel, existingModel, newModel[1], ai)
               IN /\ trace' = Append(trace, Event("step", step, sourceModel.id,
                                                  << >>, newModel, <<out>>))
                  /\ IF sIdx = Len(newAndChangedSteps)
                     THEN /\ newModelsList' = Append(newModelsList, out)
                          /\ newModel' = << >>
                          /\ mIdx' = mIdx + 1
                          /\ sIdx' = 1
                          /\ pc' = NextModelPc
                     ELSE /\ newModel' = <<out>>
                          /\ sIdx' = sIdx + 1
                          /\ UNCHANGED <<newModelsList, mIdx, pc>>
    /\ UNCHANGED <<files, config, units, runs, allModels, sourceModels, existingModels,
                   hashes, structure, prev>>

\* Lines 71-77: the awaited noChange step returns; after the last one the
\* existing record is pushed.
NoChangeStepReturns ==
    /\ pc = "noChangeStep"
    /\ LET sourceModel == sourceModels[mIdx]
           out         == noChangeStep(sourceModel, newModel[1])
       IN /\ trace' = Append(trace, Event("noChange", noChangeSteps[sIdx], sourceModel.id,
                                          << >>, newModel, <<out>>))
          /\ IF sIdx = Len(noChangeSteps)
             THEN /\ newModelsList' = Append(newModelsList, out)
                  /\ newModel' = << >>
                  /\ mIdx' = mIdx + 1
                  /\ sIdx' = 1
                  /\ pc' = NextModelPc
             ELSE /\ newModel' = <<out>>
                  /\ sIdx' = sIdx + 1
                  /\ UNCHANGED <<newModelsList, mIdx, pc>>
    /\ UNCHANGED <<files, config, units, runs, allModels, sourceModels, existingModels,
                   hashes, structure, prev>>

\* Lines 92-95: the awaited batch step returns.
BatchStepReturns ==
    /\ pc = "batch"
    /\ trace' = Append(trace, Event("batch", batchSteps[sIdx], << >>,
                                    Ids(newModelsList), << >>, << >>))
    /\ newModelsList' = ApplyBatchStep(batchSteps[sIdx], newModelsList)
    /\ IF sIdx = Len(batchSteps)
       THEN /\ sIdx' = 1
            /\ pc' = "assemble"
       ELSE /\ sIdx' = sIdx + 1
            /\ UNCHANGED pc
    /\ UNCHANGED <<files, config, units, runs, allModels, sourceModels, existingModels,
                   hashes, mIdx, newModel, structure, prev>>

\* Lines 97-110: add back, sort, build the structure.
Assemble ==
    /\ pc = "assemble"
    /\ structure' = AssembleStructure(newModelsList, existingModels, catalogFile.providers)
    /\ trace' = Append(trace, Event("assemble", "assemble", << >>, << >>, << >>, << >>))
    /\ pc' = "outputStructure"
    /\ UNCHANGED <<files, config, units, runs, allModels, sourceModels, existingModels,
                   hashes, newModelsList, mIdx, sIdx, newModel, prev>>

\* Lines 112-117: the awaited output-structure step returns.
OutputStructureStepReturns ==
    /\ pc = "outputStructure"
    /\ structure' = extractProviderInformation(structure)
    /\ trace' = Append(trace, Event("outputStructure", outputStructureSteps[sIdx],
                                    << >>, << >>, << >>, << >>))
    /\ IF sIdx = Len(outputStructureSteps)
       THEN /\ sIdx' = 1
            /\ pc' = "writeCatalog"
       ELSE /\ sIdx' = sIdx + 1
            /\ UNCHANGED pc
    /\ UNCHANGED <<files, config, units, runs, allModels, sourceModels, existingModels,
                   hashes, newModelsList, mIdx, newModel, prev>>

\* run line 131.
WriteCatalog ==
    /\ pc = "writeCatalog"
    /\ catalogFile' = structure
    /\ trace' = Append(trace, Event("writeCatalog", "writeCatalog", << >>, << >>, << >>, << >>))
    /\ pc' = "writeHashes"
    /\ UNCHANGED <<hashFile, config, units, runs, allModels, sourceModels, existingModels,
                   hashes, newModelsList, mIdx, sIdx, newModel, structure, prev>>

\* run line 132.
WriteHashes ==
    /\ pc = "writeHashes"
    /\ hashFile' = hashes
    /\ trace' = Append(trace, Event("writeHashes", "writeHashes", << >>, << >>, << >>, << >>))
    /\ pc' = "done"
    /\ UNCHANGED <<catalogFile, config, units, runs, allModels, sourceModels, existingModels,
                   hashes, newModelsList, mIdx, sIdx, newModel, structure, prev>>

\* The positions at which run() awaits a collaborator that may reject.
AwaitingPcs == {"modelsDevSource", "openRouterSource", "step", "noChangeStep",
                "batch", "outputStructure"}

\* Mutant of AwaitedCallFails: the catch block saves the hash map.
AwaitedCallFails_WritesHashes ==
    /\ pc \in AwaitingPcs
    /\ pc' = "failed"
    /\ hashFile' = hashes
    /\ trace' = Append(trace, Event("failed", pc, << >>, << >>, << >>, << >>))
    /\ UNCHANGED <<catalogFile, config, units, runs, allModels, sourceModels, existingModels,
                   hashes, newModelsList, mIdx, sIdx, newModel, structure, prev>>

\* run lines 135-139: the awaited source or step rejects; the catch block
\* reports the failure and exits the process.
AwaitedCallFails ==
    /\ pc \in AwaitingPcs
    /\ pc' = "failed"
    /\ trace' = Append(trace, Event("failed", pc, << >>, << >>, << >>, << >>))
    /\ UNCHANGED <<files, config, units, runs, allModels, sourceModels, existingModels,
                   hashes, newModelsList, mIdx, sIdx, newModel, structure, prev>>

Next ==
    \/ StartRun
    \/ ModelsDevSourceReturns
    \/ OpenRouterSourceReturns
    \/ ClassifyModel
    \/ StepReturns
    \/ NoChangeStepReturns
    \/ BatchStepReturns
    \/ Assemble
    \/ OutputStructureStepReturns
    \/ WriteCatalog
    \/ WriteHashes
    \/ AwaitedCallFails

Spec == Init /\ [][Next]_vars

(***************************************************************************)
(* deduplicateModels on its own: one call on a list of ModelInformation    *)
(* records, and a second call on what the first returned                   *)
(***************************************************************************)
MaxModels == 3

\* Offerings (ModelInformationOfProvider) the records below carry.
PoolOffering(providerId, contextLength, input) ==
    [providerId |-> providerId, providerName |-> << >>,
     contextLength |-> contextLength, inputLimit |-> 0, outputLimit |-> 2,
     price |-> << [currency |-> "usd", input |-> <<input>>, output |-> <<0>>] >>]

\* Well-typed ModelInformation records: every aliases list contains the id
\* and is ordered longest first; the optional fields are present or absent.
ModelPool ==
    LET base == [id |-> <<"a", "b">>, aliases |-> << <<"a", "b">> >>, name |-> "M",
                 description |-> << >>, input |-> <<"text">>, output |-> <<"text">>,
                 reasoning |-> "true", toolCalling |-> "false", openWeights |-> "undef",
                 knowledge |-> 0, parameters |-> << <<"temperature">> >>,
                 defaultParameters |-> << >>,
                 providers |-> << PoolOffering(<<"p", "a">>, 8, 100) >>,
                 freeProviders |-> << >>]
    IN { base,
         [base EXCEPT !.id = <<"A", "-", "b">>,
                      !.aliases = << <<"x", "/", "A", "-", "b">>, <<"A", "-", "b">> >>,
                      !.reasoning = "true", !.toolCalling = "true", !.openWeights = "true",
                      !.parameters = << <<"temperature", "tools">> >>,
                      !.providers = << PoolOffering(OpenRouterId, 16, 120) >>],
         [base EXCEPT !.id = <<"a", "b", ":", "f", "r", "e", "e">>,
                      !.aliases = << <<"v", "/", "a", "b", ":", "f", "r", "e", "e">>,
                                     <<"a", "b", ":", "f", "r", "e", "e">>,
                                     <<"v", "/", "a", "b">>, <<"a", "b">> >>,
                      !.reasoning = "undef", !.toolCalling = "undef", !.openWeights = "false",
                      !.providers = << PoolOffering(OpenRouterId, 16, 0) >>],
         [base EXCEPT !.id = <<"A", "B">>, !.aliases = << <<"A", "B">> >>,
                      !.reasoning = "false", !.toolCalling = "undef", !.openWeights = "true",
                      !.providers = << PoolOffering(<<"p", "b">>, 4, 150) >>],
         [base EXCEPT !.id = <<"c", "1", ":", "F", "R", "E", "E">>,
                      !.aliases = << <<"c", "1", ":", "F", "R", "E", "E">>, <<"c">> >>,
                      !.reasoning = "true", !.toolCalling = "true", !.openWeights = "false",
                      !.parameters = << >>, !.defaultParameters = << [seed |-> 1] >>,
                      !.providers = << PoolOffering(OpenRouterId, 16, 0) >>],
         [base EXCEPT !.id = <<"c", "1">>, !.aliases = << <<"c", "1">> >>,
                      !.reasoning = "undef", !.toolCalling = "true", !.openWeights = "undef",
                      !.knowledge = 3],
         [base EXCEPT !.id = <<"d", ":", "f", "r", "e", "e", ":", "f", "r", "e", "e">>,
                      !.aliases = << <<"d", ":", "f", "r", "e", "e", ":", "f", "r", "e", "e">> >>] }

DedupInit ==
    /\ PipelineInit
    /\ noChangeSteps = << >>
    /\ dedupCall \in {[stage |-> "called", models |-> xs, result |-> << >>, twice |-> << >>] :
                        xs \in DistinctSeqsUpTo(ModelPool, MaxModels)}
    /\ providersCall = NoCall
    /\ appCache = NoCall
    /\ structureCall = NoCall

\* deduplicateModels(models) returns, or raises the TypeError of line 56.
DeduplicateModelsReturns ==
    /\ dedupCall.stage = "called"
    /\ LET r == deduplicateModels(dedupCall.models)
       IN dedupCall' = [dedupCall EXCEPT
                            !.stage = IF r.threw THEN "raised" ELSE "returned",
                            !.result = r.models]
    /\ UNCHANGED <<files, config, runs, pc, allModels, sourceModels, existingModels,
                   hashes, newModelsList, mIdx, sIdx, newModel, structure, trace, prev,
                   providersCall, appCache, structureCall>>

\* The list a call returned is deduplicated once more (run.ts:95 does so
\* with what modelsDevSource returned).
DeduplicateModelsAgain ==
    /\ dedupCall.stage = "returned"
    /\ LET r == deduplicateModels(dedupCall.result)
       IN dedupCall' = [dedupCall EXCEPT
                            !.stage = IF r.threw THEN "raisedAgain" ELSE "returnedAgain",
                            !.twice = r.models]
    /\ UNCHANGED <<files, config, runs, pc, allModels, sourceModels, existingModels,
                   hashes, newModelsList, mIdx, sIdx, newModel, structure, trace, prev,
                   providersCall, appCache, structureCall>>

DedupNext == DeduplicateModelsReturns \/ DeduplicateModelsAgain

DedupSpec == DedupInit /\ [][DedupNext]_vars

(***************************************************************************)
(* deduplicateProviders on its own: the loop of lines 111-174, one         *)
(* offering per step                                                       *)
(***************************************************************************)
MaxOfferings == 3

\* Well-typed ModelInformationOfProvider records.
OfferingPool ==
    LET google == <<"G", "o", "o", "g", "l", "e">>
        base == [providerId |-> <<"g">>, providerName |-> google,
                 contextLength |-> 8, inputLimit |-> 0, outputLimit |-> 4,
                 price |-> << [currency |-> "usd", input |-> <<100>>, output |-> <<200>>] >>]
    IN { base,
         [base EXCEPT !.providerId = <<"g", "o">>,
                      !.providerName = google \o <<" ", "A", "I">>,
                      !.contextLength = 4, !.inputLimit = 2, !.outputLimit = 0,
                      !.price = << [currency |-> "usd", input |-> <<150>>, output |-> << >>] >>],
         [base EXCEPT !.providerName = << >>, !.contextLength = 0, !.outputLimit = 0,
                      !.price = << >>],
         [base EXCEPT !.contextLength = 16, !.inputLimit = 3, !.outputLimit = 2,
                      !.price = << [currency |-> "eur", input |-> <<90>>, output |-> <<300>>] >>],
         [base EXCEPT !.providerId = <<"h">>, !.providerName = <<"G", "o", "o", "g", "l">>,
                      !.price = << [currency |-> "usd", input |-> << >>, output |-> <<50>>] >>],
         [base EXCEPT !.providerName = << >>, !.contextLength = -1, !.inputLimit = 5,
                      !.price = << >>],
         [base EXCEPT !.providerName = << >>, !.contextLength = 2] }

ProvidersInit ==
    /\ PipelineInit
    /\ noChangeSteps = << >>
    /\ dedupCall = NoCall
    /\ providersCall \in {[stage |-> "loop", providers |-> xs, deduplicated |-> << >>,
                           idx |-> 1, merges |-> << >>] :
                            xs \in DistinctSeqsUpTo(OfferingPool, MaxOfferings)}
    /\ appCache = NoCall
    /\ structureCall = NoCall

\* Lines 121-170: an entry of deduplicated is the same provider as the
\* offering the loop is at, and the offering is merged into it.  merges
\* records the entry before and after, and the offering.
ProviderIsMerged ==
    /\ providersCall.stage = "loop"
    /\ providersCall.idx <= Len(providersCall.providers)
    /\ LET provider == providersCall.providers[providersCall.idx]
           k        == FindProvider(providersCall.deduplicated, provider, 1)
       IN /\ k # 0
          /\ LET existing == providersCall.deduplicated[k]
                 merged   == MergeProvider(existing, provider)
             IN providersCall' = [providersCall EXCEPT
                    !.deduplicated[k] = merged,
                    !.idx = @ + 1,
                    !.merges = Append(@, [existing |-> existing, provider |-> provider,
                                          merged |-> merged])]
    /\ UNCHANGED <<files, config, runs, pc, allModels, sourceModels, existingModels,
                   hashes, newModelsList, mIdx, sIdx, newModel, structure, trace, prev,
                   dedupCall, appCache, structureCall>>

\* Lines 171-173: no entry matches, the offering is pushed.
ProviderIsPushed ==
    /\ providersCall.stage = "loop"
    /\ providersCall.idx <= Len(providersCall.providers)
    /\ LET provider == providersCall.providers[providersCall.idx]
       IN /\ FindProvider(providersCall.deduplicated, provider, 1) = 0
          /\ providersCall' = [providersCall EXCEPT
                    !.deduplicated = Append(@, provider), !.idx = @ + 1]
    /\ UNCHANGED <<files, config, runs, pc, allModels, sourceModels, existingModels,
                   hashes, newModelsList, mIdx, sIdx, newModel, structure, trace, prev,
                   dedupCall, appCache, structureCall>>

\* Line 176: the loop is through, deduplicated is returned.
DeduplicateProvidersReturns ==
    /\ providersCall.stage = "loop"
    /\ providersCall.idx > Len(providersCall.providers)
    /\ providersCall' = [providersCall EXCEPT !.stage = "returned"]
    /\ UNCHANGED <<files, config, runs, pc, allModels, sourceModels, existingModels,
                   hashes, newModelsList, mIdx, sIdx, newModel, structure, trace, prev,
                   dedupCall, appCache, structureCall>>

ProvidersNext == ProviderIsMerged \/ ProviderIsPushed \/ DeduplicateProvidersReturns

ProvidersSpec == ProvidersInit /\ [][ProvidersNext]_vars

(***************************************************************************)
(* AppCache (createCache and remember, processing/processor.ts 142-163)    *)
(*                                                                         *)
(* appCache.file     << >> while the storage file does not exist, else     *)
(*                   <<content>>, the parsed JSON object                   *)
(* appCache.storage  << >> while no cache object exists, else <<storage>>  *)
(* appCache.calls    the calls of remember, in the order they were made    *)
(* appCache.stored   history: per key, the result the last completed       *)
(*                   remember stored                                       *)
(***************************************************************************)
MaxCalls == 3

\* Keys handed to remember: their text and their length.
CacheKeys == { [text |-> "description-ab", length |-> 14],
               [text |-> "translation-of-a-long-text", length |-> 51] }

\* Lines 151-153: a key of more than 50 characters is replaced by its hash.
StorageKey(key) ==
    IF key.length > 50 THEN <<"hash.", key.text>> ELSE <<"plain", key.text>>

\* What the work functions of the repository resolve to: a non-empty value
\* (a string, an array, an object), the empty string (an empty model card or
\* summary), null.
WorkResults == {"'text'", "''", "null"}

Truthy(value) == value \notin {"''", "null", "undefined"}

EmptyStorage == [k \in {} |-> "undefined"]

\* storage[key]
Lookup(storage, key) == IF key \in DOMAIN storage THEN storage[key] ELSE "undefined"

\* Line 154: storage[key] || storage[key] === null
IsCacheHit(storage, key) ==
    Truthy(Lookup(storage, key)) \/ Lookup(storage, key) = "null"

\* JSON.stringify(storage) followed by JSON.parse: a property whose value is
\* undefined is left out.
Serialized(storage) ==
    [k \in {j \in DOMAIN storage : storage[j] # "undefined"} |-> storage[k]]

\* The result a completed remember stored for the key, << >> if none did.
StoredFor(key) ==
    IF key \in DOMAIN appCache.stored THEN << appCache.stored[key] >> ELSE << >>

CacheInit ==
    /\ PipelineInit
    /\ noChangeSteps = << >>
    /\ dedupCall = NoCall
    /\ providersCall = NoCall
    /\ structureCall = NoCall
    /\ appCache = [stage |-> "cache", file |-> << >>, storage |-> << >>,
                   calls |-> << >>, stored |-> EmptyStorage]

Awaiting == {i \in 1..Len(appCache.calls) : appCache.calls[i].phase = "awaiting"}

\* Lines 142-147: createCache writes {} when the file does not exist and
\* reads the file into storage.  It stands for the start of a process: no
\* call of an earlier cache object is in flight.
CreateCache ==
    /\ appCache.stage = "cache"
    /\ Awaiting = {}
    /\ LET content == IF appCache.file = << >> THEN EmptyStorage ELSE appCache.file[1]
       IN appCache' = [appCache EXCEPT !.file = <<content>>, !.storage = <<content>>]
    /\ UNCHANGED <<files, config, runs, pc, allModels, sourceModels, existingModels,
                   hashes, newModelsList, mIdx, sIdx, newModel, structure, trace, prev,
                   dedupCall, providersCall, structureCall>>

\* Lines 150-156: remember finds the key and returns the entry.
RememberHits ==
    /\ appCache.stage = "cache"
    /\ appCache.storage # << >>
    /\ Len(appCache.calls) < MaxCalls
    /\ \E key \in CacheKeys :
        /\ IsCacheHit(appCache.storage[1], StorageKey(key))
        /\ appCache' = [appCache EXCEPT !.calls = Append(@,
                [key |-> StorageKey(key), phase |-> "returned", invoked |-> FALSE,
                 result |-> Lookup(appCache.storage[1], StorageKey(key)),
                 stored |-> StoredFor(StorageKey(key)),
                 inFlight |-> Cardinality(Awaiting)])]
    /\ UNCHANGED <<files, config, runs, pc, allModels, sourceModels, existingModels,
                   hashes, newModelsList, mIdx, sIdx, newModel, structure, trace, prev,
                   dedupCall, providersCall, structureCall>>

\* Lines 154 and 157: remember does not find the key, invokes the work
\* function and awaits it.
RememberMisses ==
    /\ appCache.stage = "cache"
    /\ appCache.storage # << >>
    /\ Len(appCache.calls) < MaxCalls
    /\ \E key \in CacheKeys :
        /\ ~IsCacheHit(appCache.storage[1], StorageKey(key))
        /\ appCache' = [appCache EXCEPT !.calls = Append(@,
                [key |-> StorageKey(key), phase |-> "awaiting", invoked |-> TRUE,
                 result |-> "undefined", stored |-> StoredFor(StorageKey(key)),
                 inFlight |-> Cardinality(Awaiting)])]
    /\ UNCHANGED <<files, config, runs, pc, allModels, sourceModels, existingModels,
                   hashes, newModelsList, mIdx, sIdx, newModel, structure, trace, prev,
                   dedupCall, providersCall, structureCall>>

\* Mutant of WorkResolves: the file is rewritten with the entry of this call
\* alone.
WorkResolves_WritesOwnEntryOnly ==
    /\ appCache.stage = "cache"
    /\ \E i \in Awaiting : \E value \in WorkResults :
        LET key     == appCache.calls[i].key
            storage == Put(appCache.storage[1], key, value)
        IN appCache' = [appCache EXCEPT
                !.storage = <<storage>>,
                !.file = << Serialized(Put(EmptyStorage, key, value)) >>,
                !.calls[i].phase = "returned",
                !.calls[i].result = value,
                !.stored = Put(@, key, value)]
    /\ UNCHANGED <<files, config, runs, pc, allModels, sourceModels, existingModels,
                   hashes, newModelsList, mIdx, sIdx, newModel, structure, trace, prev,
                   dedupCall, providersCall, structureCall>>

\* Lines 157-160: the work function resolves; the result is put into
\* storage, the file is rewritten and the result is returned.
WorkResolves ==
    /\ appCache.stage = "cache"
    /\ \E i \in Awaiting : \E value \in WorkResults :
        LET key     == appCache.calls[i].key
            storage == Put(appCache.storage[1], key, value)
        IN appCache' = [appCache EXCEPT
                !.storage = <<storage>>,
                !.file = << Serialized(storage) >>,
                !.calls[i].phase = "returned",
                !.calls[i].result = value,
                !.stored = Put(@, key, value)]
    /\ UNCHANGED <<files, config, runs, pc, allModels, sourceModels, existingModels,
                   hashes, newModelsList, mIdx, sIdx, newModel, structure, trace, prev,
                   dedupCall, providersCall, structureCall>>

\* Line 157: the work function rejects; nothing is stored.
WorkRejects ==
    /\ appCache.stage = "cache"
    /\ \E i \in Awaiting :
        appCache' = [appCache EXCEPT !.calls[i].phase = "rejected"]
    /\ UNCHANGED <<files, config, runs, pc, allModels, sourceModels, existingModels,
                   hashes, newModelsList, mIdx, sIdx, newModel, structure, trace, prev,
                   dedupCall, providersCall, structureCall>>

CacheNext ==
    \/ CreateCache
    \/ RememberHits
    \/ RememberMisses
    \/ WorkResolves
    \/ WorkRejects

CacheSpec == CacheInit /\ [][CacheNext]_vars

(***************************************************************************)
(* extractProviderInformation on its own: one call on a structure, and one *)
(* call on the same structure with models and offerings rearranged          *)
(***************************************************************************)
MaxCatalog == 3

\* The offerings of a model as the step reads them: providerId and the
\* providerName a source record still carries (absent on records of an
\* earlier catalog).
CatalogOffering(providerId, providerName) ==
    [providerId |-> providerId, providerName |-> providerName]

\* Models of a structure, reduced to what the step reads.  models.dev lists
\* its providers with an id and a name of its own, OpenRouter among them.
CatalogPool ==
    LET pa == <<"p", "a">>
        pb == <<"p", "b">>
    IN { [id |-> <<"a">>, providers |-> << CatalogOffering(pa, <<"P", "a">>),
                                          CatalogOffering(OpenRouterId, << >>) >>],
         [id |-> <<"b">>, providers |-> << CatalogOffering(OpenRouterId,
                                               <<"O", "p", "e", "n", " ", "R">>) >>],
         [id |-> <<"c">>, providers |-> << CatalogOffering(pa, << >>),
                                          CatalogOffering(pb, <<"P", "b">>) >>],
         [id |-> <<"d">>, providers |-> << CatalogOffering(pb, <<"P", "b">>),
                                          CatalogOffering(OpenRouterId, << >>) >>] }

\* structure.providers as read from the catalog file: none yet, or the
\* directory of an earlier run.
DirectoryPool == { << >>, << [id |-> <<"p", "a">>, name |-> <<"P", "A">>] >> }

\* All rearrangements of a sequence.
Rearrangements(s) ==
    LET n == Len(s)
    IN {[i \in 1..n |-> s[f[i]]] :
            f \in {g \in [1..n -> 1..n] : \A i, j \in 1..n : i # j => g[i] # g[j]}}

\* A structure with its models in any order and the offerings of each model
\* in any order.
StructurePermutations(s) ==
    LET n == Len(s.models)
        offeringOrders(m) == {[m EXCEPT !.providers = q] : q \in Rearrangements(m.providers)}
        all == UNION {offeringOrders(s.models[i]) : i \in 1..n}
    IN {[s EXCEPT !.models = q] :
            q \in UNION {{r \in [1..n -> all] : \A i \in 1..n : r[i] \in offeringOrders(ms[i])} :
                            ms \in Rearrangements(s.models)}}

StructureInit ==
    /\ PipelineInit
    /\ noChangeSteps = << >>
    /\ dedupCall = NoCall
    /\ providersCall = NoCall
    /\ appCache = NoCall
    /\ structureCall \in {[stage |-> "called",
                           structure |-> [models |-> ms, providers |-> dir],
                           result |-> << >>, permuted |-> << >>, permutedResult |-> << >>] :
                            ms \in DistinctSeqsUpTo(CatalogPool, MaxCatalog),
                            dir \in DirectoryPool}

\* extractProviderInformation(structure) returns.
ExtractProviderInformationReturns ==
    /\ structureCall.stage = "called"
    /\ structureCall' = [structureCall EXCEPT
                            !.stage = "returned",
                            !.result = << extractProviderInformation(structureCall.structure) >>]
    /\ UNCHANGED <<files, config, runs, pc, allModels, sourceModels, existingModels,
                   hashes, newModelsList, mIdx, sIdx, newModel, structure, trace, prev,
                   dedupCall, providersCall, appCache>>

\* The step is called on a rearrangement of the same structure and returns.
ExtractFromRearrangedReturns ==
    /\ structureCall.stage = "returned"
    /\ \E s \in StructurePermutations(structureCall.structure) :
          structureCall' = [structureCall EXCEPT
                                !.stage = "compared",
                                !.permuted = << s >>,
                                !.permutedResult = << extractProviderInformation(s) >>]
    /\ UNCHANGED <<files, config, runs, pc, allModels, sourceModels, existingModels,
                   hashes, newModelsList, mIdx, sIdx, newModel, structure, trace, prev,
                   dedupCall, providersCall, appCache>>

StructureNext == ExtractProviderInformationReturns \/ ExtractFromRearrangedReturns

StructureSpec == StructureInit /\ [][StructureNext]_vars

(***************************************************************************)
(* Runs on top of the files an earlier run has written                     *)
(***************************************************************************)
\* The candidates of the earlier run: models.dev delivered model "ab",
\* OpenRouter nothing (run lines 85-102).
EarlierCandidates ==
    LET record == CHOOSE u \in ModelsDevUpstream :
                      u.id = <<"a", "b">> /\ u.costInput = <<100>>
        fromModelsDev == deduplicateModels(<< NormalizeModelsDev(record) >>).models
    IN FilterDenied(deduplicateModels(LowercaseIds(fromModelsDev)).models, modelDenyList)

\* processor lines 85-87 for a model the catalog does not hold yet.
RECURSIVE ApplyStepsFrom(_, _, _, _)
ApplyStepsFrom(i, sourceModel, wip, ai) ==
    IF i > Len(newAndChangedSteps) THEN wip
    ELSE ApplyStepsFrom(i + 1, sourceModel,
                        ApplyStep(newAndChangedSteps[i], sourceModel, << >>, wip, ai), ai)

\* processor lines 92-95.
RECURSIVE ApplyBatchStepsFrom(_, _)
ApplyBatchStepsFrom(i, models) ==
    IF i > Len(batchSteps) THEN models
    ELSE ApplyBatchStepsFrom(i + 1, ApplyBatchStep(batchSteps[i], models))

\* What the earlier run, started on empty files at time 0, has written: the
\* catalog and the hash map.  generateAiDescription returned a summary.
EarlierRun ==
    LET ai   == CHOOSE a \in AiOutcomes : a # << >>
        list == [i \in 1..Len(EarlierCandidates) |->
                    ApplyStepsFrom(1, EarlierCandidates[i],
                                   InitialNewModel(EarlierCandidates[i], 0), ai)]
        RECURSIVE HashAll(_, _)
        HashAll(map, i) ==
            IF i > Len(EarlierCandidates) THEN map
            ELSE HashAll(Put(map, EarlierCandidates[i].id,
                             calculateModelHash(EarlierCandidates[i])), i + 1)
    IN [catalog |-> extractProviderInformation(
                        AssembleStructure(ApplyBatchStepsFrom(1, list), << >>, << >>)),
        hashes  |-> HashAll(EmptyMap, 1)]

\* The process starts on the files of the earlier run.
RerunInit ==
    /\ catalogFile = EarlierRun.catalog
    /\ hashFile = EarlierRun.hashes
    /\ noChangeSteps \in NoChangeConfigs
    /\ runs = 0
    /\ pc = "idle"
    /\ allModels = << >>
    /\ sourceModels = << >>
    /\ existingModels = << >>
    /\ hashes = EmptyMap
    /\ newModelsList = << >>
    /\ mIdx = 0
    /\ sIdx = 0
    /\ newModel = << >>
    /\ structure = EmptyStructure
    /\ trace = << >>
    /\ prev = [catalog |-> EmptyStructure, hashes |-> EmptyMap, fetched |-> << >>]
    /\ UnitsIdle

RerunSpec == RerunInit /\ [][Next]_vars

(***************************************************************************)
(* Vocabulary of the properties                                            *)
(***************************************************************************)
\* processor has returned: structure is the run's output catalog.
ReturnedPcs == {"writeCatalog", "writeHashes", "done"}

PrevModels == prev.catalog.models
PrevIds == Range(Ids(PrevModels))
CandidateIds == Range(Ids(sourceModels))

\* The candidate is in the persisted catalog and its content hash is the
\* one persisted for its id.
KnownSame(m) ==
    /\ m.id \in PrevIds
    /\ HashOf(prev.hashes, m.id) = calculateModelHash(m)

EventsOf(kind, id) == SelectSeq(trace, LAMBDA e : e.kind = kind /\ e.id = id)
EventsOfKind(kind) == SelectSeq(trace, LAMBDA e : e.kind = kind)
Names(events) == [i \in 1..Len(events) |-> events[i].name]

UniqueIds(models) ==
    \A i, j \in 1..Len(models) : models[i].id = models[j].id => i = j

\* C1: no newAndChanged step is invoked, at any point of a run, for a
\* candidate whose id is in the persisted catalog and whose content hash
\* equals the persisted hash of that id.
C1_UnchangedModelIsNotEnriched ==
    \A m \in Range(sourceModels) :
        KnownSame(m) => EventsOf("step", m.id) = << >>

\* A run has ended successfully in which a known, unchanged candidate was
\* skipped while another candidate went through the newAndChanged steps.
C1_Witness ==
    /\ pc = "done"
    /\ \E m \in Range(sourceModels) : KnownSame(m)
    /\ EventsOfKind("step") # << >>

\* C2: once the loop iteration of a candidate that is new, or whose hash
\* differs from the persisted one, has completed, the hash map holds the new
\* hash for its id and the newAndChanged steps were invoked for it exactly
\* once each, in configured order, every step after the first receiving the
\* record the previous step returned.
C2_ChangedModelRunsEveryStepInOrder ==
    \A i \in 1..Len(sourceModels) :
        (i < mIdx /\ ~KnownSame(sourceModels[i])) =>
            LET m      == sourceModels[i]
                events == EventsOf("step", m.id)
            IN /\ HashOf(hashes, m.id) = calculateModelHash(m)
               /\ Names(events) = newAndChangedSteps
               /\ events[1].wipIn = << InitialNewModel(m, runs) >>
               /\ \A k \in 2..Len(events) : events[k].wipIn = events[k - 1].wipOut

\* A changed model (known id, different hash) has completed its iteration
\* and a step of its chain altered the record it received.
C2_Witness ==
    \E i \in 1..Len(sourceModels) :
        /\ i < mIdx
        /\ sourceModels[i].id \in PrevIds
        /\ ~KnownSame(sourceModels[i])
        /\ \E e \in Range(EventsOf("step", sourceModels[i].id)) : e.wipIn # e.wipOut

\* C3: when processor has returned, every persisted model whose id is not a
\* candidate of the run is in the output catalog, flagged deprecated and
\* otherwise equal to the persisted record, and neither a per-model step nor
\* a batch step has been run on it.
C3_MissingModelIsDeprecatedAndUntouched ==
    pc \in ReturnedPcs =>
        \A p \in Range(PrevModels) :
            p.id \notin CandidateIds =>
                /\ \E k \in 1..Len(structure.models) :
                      structure.models[k] = [p EXCEPT !.deprecated = TRUE]
                /\ EventsOf("step", p.id) = << >>
                /\ EventsOf("noChange", p.id) = << >>
                /\ \A e \in Range(EventsOfKind("batch")) : ~Includes(e.ids, p.id)

\* A run has been written whose sources no longer delivered a model that was
\* in the catalog and not yet deprecated, while steps ran on other models.
C3_Witness ==
    /\ pc = "done"
    /\ \E p \in Range(PrevModels) : p.id \notin CandidateIds /\ ~p.deprecated
    /\ EventsOfKind("step") # << >>
    /\ EventsOfKind("batch") # << >>

\* C4: no step of any run removes an id from the catalog file: every id the
\* file holds before a step is in the file after it.
C4_CatalogIdsNeverShrink ==
    [][Range(Ids(catalogFile.models)) \subseteq Range(Ids(catalogFile'.models))]_vars

\* The second run has been written, the catalog held models before it and
\* the sources delivered none of them.
C4_Witness ==
    /\ pc = "done"
    /\ runs = 2
    /\ PrevIds # {}
    /\ PrevIds \cap CandidateIds = {}
    /\ PrevIds \subseteq Range(Ids(catalogFile.models))

\* C5: after a failed source, per-model step, batch step or output-structure
\* step, both files have exactly their content from before the run.
C5_FailedRunWritesNothing ==
    pc = "failed" => /\ catalogFile = prev.catalog
                     /\ hashFile = prev.hashes

\* A run has failed after the in-memory hash map and the deprecated flags
\* had been changed.
C5_Witness ==
    /\ pc = "failed"
    /\ hashes # hashFile
    /\ existingModels # catalogFile.models
    /\ \E i \in 1..Len(existingModels) :
          existingModels[i].deprecated /\ ~catalogFile.models[i].deprecated

\* C6: every id in the list handed to a batch step belongs to a candidate
\* classified NEW_OR_CHANGED; no candidate that is known and unchanged is
\* ever handed to a batch step, with or without noChange steps configured.
C6_BatchSeesOnlyNewOrChanged ==
    \A e \in Range(EventsOfKind("batch")) :
        \A m \in Range(sourceModels) :
            KnownSame(m) => ~Includes(e.ids, m.id)

\* C7: batch steps are a barrier.  A batch step starts only when every
\* candidate has been classified and every record of the per-model loop has
\* been pushed, nothing of the per-model loop happens after it, the batch
\* steps run in configured order at most once, and assembly, the
\* output-structure step and both writes come after all of them.
C7_BatchStepsAreABarrier ==
    /\ Names(EventsOfKind("batch")) = SubSeq(batchSteps, 1, Len(EventsOfKind("batch")))
    /\ \A i \in 1..Len(trace) :
          /\ trace[i].kind = "batch" =>
                /\ \A j \in (i + 1)..Len(trace) :
                      trace[j].kind \notin {"classify", "step", "noChange"}
                /\ \A m \in Range(sourceModels) :
                      LET before == SubSeq(trace, 1, i - 1)
                          mine(kind) == SelectSeq(before, LAMBDA e : e.kind = kind /\ e.id = m.id)
                      IN /\ Len(mine("classify")) = 1
                         /\ mine("classify")[1].name = "NEW_OR_CHANGED"
                               => Names(mine("step")) = newAndChangedSteps
                         /\ (mine("classify")[1].name = "UNCHANGED" /\ noChangeSteps # << >>)
                               => Names(mine("noChange")) = noChangeSteps
          /\ trace[i].kind \in {"assemble", "outputStructure", "writeCatalog", "writeHashes"} =>
                Names(SelectSeq(SubSeq(trace, 1, i - 1), LAMBDA e : e.kind = "batch")) = batchSteps
    /\ pc \in {"assemble", "outputStructure"} \cup ReturnedPcs =>
          Names(EventsOfKind("batch")) = batchSteps

\* A run over two candidates that went through the per-model steps has been
\* written.
C7_Witness ==
    /\ pc = "done"
    /\ Len(sourceModels) >= 2
    /\ Len(EventsOfKind("step")) >= 2 * Len(newAndChangedSteps)
    /\ Len(EventsOfKind("batch")) = Len(batchSteps)

\* C8: with no noChange step configured, a known and unchanged candidate is
\* in the output catalog exactly once, as the very record that was persisted
\* (lastImportedAt included).
C8_UnchangedModelIsReusedVerbatim ==
    (pc \in ReturnedPcs /\ noChangeSteps = << >>) =>
        \A m \in Range(sourceModels) :
            KnownSame(m) =>
                /\ Cardinality({k \in 1..Len(structure.models) :
                                    structure.models[k].id = m.id}) = 1
                /\ \E k \in 1..Len(structure.models), j \in 1..Len(PrevModels) :
                      /\ structure.models[k].id = m.id
                      /\ PrevModels[j].id = m.id
                      /\ structure.models[k] = PrevModels[j]

\* The second run is written with no noChange step configured: one
\* candidate was unchanged and keeps the timestamp of the first run, another
\* one was enriched in this run.
C8_Witness ==
    /\ pc = "done"
    /\ noChangeSteps = << >>
    /\ \E m \in Range(sourceModels) :
          /\ KnownSame(m)
          /\ \E k \in 1..Len(catalogFile.models) :
                /\ catalogFile.models[k].id = m.id
                /\ catalogFile.models[k].lastImportedAt < runs
    /\ \E k \in 1..Len(catalogFile.models) : catalogFile.models[k].lastImportedAt = runs

\* C9: ids are unique: in the list deduplicateModels returned to run(), in
\* the catalog processor returns and in the catalog file.
C9_ModelIdsAreUnique ==
    /\ UniqueIds(sourceModels)
    /\ UniqueIds(structure.models)
    /\ UniqueIds(catalogFile.models)

\* A run is written in which deduplicateModels merged two records of
\* different sources into one candidate and the catalog holds several models.
C9_Witness ==
    /\ pc = "done"
    /\ Len(sourceModels) < Len(allModels)
    /\ Len(catalogFile.models) >= 2
    /\ PrevIds \cap CandidateIds # {}

\* C10: the models of the catalog processor returns, and of the catalog
\* file, are in ascending order of id (the order of localeCompare).
C10_CatalogIsSortedById ==
    /\ pc \in ReturnedPcs =>
          \A i, j \in 1..Len(structure.models) :
              i < j => LocaleCompare(structure.models[i].id, structure.models[j].id) < 0
    /\ \A i, j \in 1..Len(catalogFile.models) :
          i < j => LocaleCompare(catalogFile.models[i].id, catalogFile.models[j].id) < 0

\* A written catalog of at least three models holding a deprecated model, a
\* model enriched in this run and an unchanged one, in which the record that
\* was pushed first is not the first of the catalog.
C10_Witness ==
    /\ pc = "done"
    /\ Len(catalogFile.models) >= 3
    /\ \E p \in Range(PrevModels) : p.id \notin CandidateIds
    /\ \E m \in Range(sourceModels) : KnownSame(m)
    /\ \E m \in Range(sourceModels) : m.id \notin PrevIds
    /\ newModelsList # << >>
    /\ newModelsList[1].id # catalogFile.models[1].id

(***************************************************************************)
(* Vocabulary of the properties of deduplicateModels                       *)
(***************************************************************************)
Flags == {"openWeights", "reasoning", "toolCalling"}

\* The call returned a list.
DedupReturned == dedupCall.stage \in {"returned", "returnedAgain", "raisedAgain"}

\* The key class of an argument record: the comparable id after the ':free'
\* suffix is removed.
ClassKey(record) == makeIdComparable(StripFree(record).id)

\* The returned models that stand for the key class of an argument record.
CanonicalOf(record) ==
    {k \in 1..Len(dedupCall.result) :
        makeIdComparable(dedupCall.result[k].id) = ClassKey(record)}

\* C11: sticky false.  When deduplicateModels returns, every argument record
\* that carries false for openWeights, reasoning or toolCalling has exactly
\* one canonical model, and that model carries false for the same flag,
\* wherever in the list the record stands.
C11_FalseIsSticky ==
    DedupReturned =>
        \A i \in 1..Len(dedupCall.models) : \A f \in Flags :
            dedupCall.models[i][f] = "false" =>
                /\ Cardinality(CanonicalOf(dedupCall.models[i])) = 1
                /\ \A k \in CanonicalOf(dedupCall.models[i]) : dedupCall.result[k][f] = "false"

\* C11 witness: a class of three merged records in which a false stands
\* between two true values of the same flag.
C11_Witness ==
    /\ dedupCall.stage = "returned"
    /\ Len(dedupCall.models) = 3
    /\ Len(dedupCall.result) = 1
    /\ \E f \in Flags :
        /\ dedupCall.models[1][f] = "true"
        /\ dedupCall.models[2][f] = "false"
        /\ dedupCall.models[3][f] = "true"
        /\ dedupCall.result[1][f] = "false"

\* C12: in every model deduplicateModels returns, no providerId occurs both
\* in freeProviders and in providers.
C12_FreeProvidersDisjointFromProviders ==
    DedupReturned =>
        \A k \in 1..Len(dedupCall.result) :
            LET m == dedupCall.result[k]
            IN \A f \in Range(OrEmpty(m.freeProviders)) : \A q \in Range(m.providers) :
                    f.providerId # q.providerId

\* C13: deduplicateModels is total: no call on a list of well-typed records
\* raises.
C13_DeduplicateModelsIsTotal ==
    dedupCall.stage \notin {"raised", "raisedAgain"}

\* No id of the argument list ends in ':free:free', that is, still ends in
\* ':free' after one suffix is removed.
NoDoubleFreeSuffix ==
    \A i \in 1..Len(dedupCall.models) :
        ~EndsWith(ToLowerCase(dedupCall.models[i].id), freeSuffix \o freeSuffix)

\* C14 as stated: for every list the first call returns for, the second call
\* returns a list equal to the first result.
C14_DeduplicateTwiceIsIdempotent ==
    /\ dedupCall.stage # "raisedAgain"
    /\ dedupCall.stage = "returnedAgain" => dedupCall.twice = dedupCall.result

\* C14 as amended: the same, for the lists in which no id ends in ':free'
\* twice.
C14_IdempotentOnceSuffixesAreGone ==
    NoDoubleFreeSuffix =>
        /\ dedupCall.stage # "raisedAgain"
        /\ dedupCall.stage = "returnedAgain" => dedupCall.twice = dedupCall.result

\* C14 witness: the first call stripped a ':free' suffix and merged records,
\* and the second call returned the same list.
C14_Witness ==
    /\ NoDoubleFreeSuffix
    /\ dedupCall.stage = "returnedAgain"
    /\ Len(dedupCall.result) < Len(dedupCall.models)
    /\ \E i \in 1..Len(dedupCall.models) : isFreeModel(dedupCall.models[i])
    /\ dedupCall.twice = dedupCall.result

\* C15: in every model deduplicateModels returns, aliases contains the id,
\* holds no two entries that are equal ignoring case and is ordered by
\* non-increasing length.
C15_AliasesAreCanonical ==
    DedupReturned =>
        \A k \in 1..Len(dedupCall.result) :
            LET m == dedupCall.result[k]
            IN /\ Includes(m.aliases, m.id)
               /\ \A i, j \in 1..Len(m.aliases) :
                    i # j => ToLowerCase(m.aliases[i]) # ToLowerCase(m.aliases[j])
               /\ \A i \in 1..(Len(m.aliases) - 1) :
                    Len(m.aliases[i]) >= Len(m.aliases[i + 1])

(***************************************************************************)
(* Properties of the run that rest on the source adapters                  *)
(***************************************************************************)
\* The raw ids the sources of the current run fetched, in fetch order.
RECURSIVE RawIds(_)
RawIds(events) ==
    IF events = << >> THEN << >> ELSE events[1].ids \o RawIds(Tail(events))

\* Both sources returned and run() received the deduplicated list.
Deduplicated ==
    /\ Len(EventsOfKind("fetched")) = 2
    /\ \A i \in 1..Len(trace) : trace[i].name # "deduplicateModels"

\* The comparison key of a source record: its id (the raw id without the
\* namespace) lower-cased, without the non-alphanumeric characters.
RawKey(rawId) == makeIdComparable(getModelBaseId(rawId))

\* C16: two fetched records whose ids have the same comparison key are
\* collapsed to exactly one model of the deduplicated list, and its aliases
\* contain the original id strings of both records and the model's id.
C16_SameKeyRecordsCollapse ==
    Deduplicated =>
        LET raw == RawIds(EventsOfKind("fetched"))
        IN \A i, j \in 1..Len(raw) :
            (i < j /\ RawKey(raw[i]) = RawKey(raw[j])) =>
                LET ms == {k \in 1..Len(sourceModels) :
                              makeIdComparable(sourceModels[k].id) = RawKey(raw[i])}
                IN /\ Cardinality(ms) = 1
                   /\ \A k \in ms :
                        /\ Includes(sourceModels[k].aliases, raw[i])
                        /\ Includes(sourceModels[k].aliases, raw[j])
                        /\ Includes(sourceModels[k].aliases, sourceModels[k].id)

(***************************************************************************)
(* Properties of deduplicateProviders                                      *)
(***************************************************************************)
\* The numeric attributes of an offering; prices by their parseFloat value.
Numeric(offering) ==
    [contextLength |-> offering.contextLength,
     inputLimit    |-> offering.inputLimit,
     outputLimit   |-> offering.outputLimit,
     input  |-> IF offering.price = << >> THEN << >> ELSE offering.price[1].input,
     output |-> IF offering.price = << >> THEN << >> ELSE offering.price[1].output]

\* The minimum of the known ones of two limits (0 is unknown).
MinKnown(a, b) == IF a = 0 THEN b ELSE IF b = 0 THEN a ELSE IF a < b THEN a ELSE b

\* The maximum of the known ones of two prices (<< >> is unknown).
MaxKnown(a, b) ==
    IF a = << >> THEN b ELSE IF b = << >> THEN a ELSE IF a[1] > b[1] THEN a ELSE b

\* C17: when deduplicateProviders([A, B]) merged A and B into one offering,
\* deduplicateProviders([B, A]) merges them too and both results carry the
\* same limits, the minimum of the known values, and the same prices, the
\* maximum of the known values.
C17_MergeIsCommutativeOnNumbers ==
    (/\ providersCall.stage = "returned"
     /\ Len(providersCall.providers) = 2
     /\ Len(providersCall.deduplicated) = 1) =>
        LET A   == providersCall.providers[1]
            B   == providersCall.providers[2]
            ab  == providersCall.deduplicated
            ba  == DeduplicateProviders(<<B, A>>)
        IN /\ Len(ba) = 1
           /\ Numeric(ab[1]) = Numeric(ba[1])
           /\ Numeric(ab[1]) =
                [contextLength |-> MinKnown(A.contextLength, B.contextLength),
                 inputLimit    |-> MinKnown(A.inputLimit, B.inputLimit),
                 outputLimit   |-> MinKnown(A.outputLimit, B.outputLimit),
                 input  |-> MaxKnown(Numeric(A).input, Numeric(B).input),
                 output |-> MaxKnown(Numeric(A).output, Numeric(B).output)]

\* C17 witness: two offerings were merged, the second with the smaller
\* context length and the larger input price, and one of them with an
\* unknown limit the other one knows.
C17_Witness ==
    /\ providersCall.stage = "returned"
    /\ Len(providersCall.providers) = 2
    /\ Len(providersCall.deduplicated) = 1
    /\ LET A == providersCall.providers[1]
           B == providersCall.providers[2]
       IN /\ A.contextLength # 0 /\ B.contextLength # 0
          /\ B.contextLength < A.contextLength
          /\ A.inputLimit = 0 /\ B.inputLimit # 0
          /\ A.price # << >> /\ B.price # << >>
          /\ B.price[1].input[1] > A.price[1].input[1]

\* C18: every merge joins two offerings of the same price.currency (absent
\* counts as a currency of its own) and leaves the currency of the surviving
\* offering as it was.
C18_MergeKeepsCurrency ==
    providersCall.stage \in {"loop", "returned"} =>
        \A i \in 1..Len(providersCall.merges) :
            LET e == providersCall.merges[i]
            IN /\ PriceCurrency(e.existing) = PriceCurrency(e.provider)
               /\ PriceCurrency(e.merged) = PriceCurrency(e.existing)

\* C18 witness: of three offerings of one providerId two were merged and the
\* one with another currency was kept apart.
C18_Witness ==
    /\ providersCall.stage = "returned"
    /\ Len(providersCall.providers) = 3
    /\ Len(providersCall.merges) = 1
    /\ Len(providersCall.deduplicated) = 2
    /\ providersCall.deduplicated[1].providerId = providersCall.deduplicated[2].providerId
    /\ PriceCurrency(providersCall.deduplicated[1]) # PriceCurrency(providersCall.deduplicated[2])
    /\ providersCall.deduplicated[1].price # << >>
    /\ providersCall.deduplicated[2].price # << >>

(***************************************************************************)
(* Properties of the catalog that rest on the processing steps             *)
(***************************************************************************)
\* The minimum of the values that are defined (0 stands for undefined), 0
\* when none is.
MinDefined(values) ==
    LET defined == {v \in values : v # 0}
    IN IF defined = {} THEN 0 ELSE CHOOSE v \in defined : \A w \in defined : v <= w

\* C19: in every model of the catalog file, contextLength, inputLimit and
\* outputLimit equal the minimum of the values the model's providers define,
\* and are absent when no provider defines one.
C19_SummaryIsMinimumOverProviders ==
    \A k \in 1..Len(catalogFile.models) :
        LET m == catalogFile.models[k]
        IN /\ m.contextLength = MinDefined({q.contextLength : q \in Range(m.providers)})
           /\ m.inputLimit = MinDefined({q.inputLimit : q \in Range(m.providers)})
           /\ m.outputLimit = MinDefined({q.outputLimit : q \in Range(m.providers)})

(***************************************************************************)
(* Properties of AppCache                                                  *)
(***************************************************************************)
\* C20: a call of remember made after a remember of the same key completed
\* and stored its result does not invoke its work function and returns the
\* stored result, on the same cache object and on one created from the file
\* later.
C20_WorkRunsOnlyOnMiss ==
    appCache.stage = "cache" =>
        \A i \in 1..Len(appCache.calls) :
            LET call == appCache.calls[i]
            IN call.stored # << >> =>
                /\ ~call.invoked
                /\ call.phase = "returned" => call.result = call.stored[1]

(***************************************************************************)
(* Properties of the processing steps                                     *)
(***************************************************************************)
\* C21: whenever generateDescription has run for a NEW_OR_CHANGED model whose
\* source record carries a non-blank description, the record it returned has
\* that description as description.en, also when a previous record with
\* another description exists.
C21_SourceDescriptionWins ==
    \A i \in 1..Len(trace) :
        LET e == trace[i]
        IN (e.kind = "step" /\ e.name = "generateDescription") =>
            LET sourceModel == sourceModels[FindId(sourceModels, e.id, 1)]
            IN ~IsBlank(sourceModel.description) =>
                /\ e.wipOut[1].description # << >>
                /\ e.wipOut[1].description[1].en = sourceModel.description

\* C22: every run that gets as far as writing has applied
\* extractProviderInformation exactly once, whether or not a model was new or
\* changed, and applying it again to the structure it returned changes neither
\* the provider directory nor the models.
C22_OutputStructurePassIsIdempotent ==
    pc \in ReturnedPcs =>
        /\ Names(EventsOfKind("outputStructure")) = <<"extractProviderInformation">>
        /\ extractProviderInformation(structure) = structure

\* A second run in which every candidate is unchanged has passed the step and
\* holds a directory with a provider named by its offering and one named by
\* providerNameMap.
C22_Witness ==
    /\ pc = "done"
    /\ runs = 2
    /\ sourceModels # << >>
    /\ EventsOfKind("step") = << >>
    /\ Len(EventsOfKind("outputStructure")) = 1
    /\ Len(structure.providers) = 2

(***************************************************************************)
(* Properties of extractProviderInformation                                *)
(***************************************************************************)
\* The names an offering list resolves for one provider id.
ResolvedNamesOf(offerings, providerId) ==
    {ResolvedName(o) : o \in {q \in Range(offerings) : q.providerId = providerId}}
        \ {<< >>}

\* No provider id is offered under two different resolved names.
NamesAgree(s) ==
    \A o \in Range(AllProviders(s.models)) :
        Cardinality(ResolvedNamesOf(AllProviders(s.models), o.providerId)) <= 1

\* C23: the provider directory the step computes (ids and names) is the same
\* for every order of the structure's models and of the offerings of each
\* model.
C23_DirectoryIsOrderIndependent ==
    structureCall.stage = "compared" =>
        structureCall.permutedResult[1].providers = structureCall.result[1].providers

\* C23, as it holds: the ids of the directory are the same for every order;
\* the names are the same too whenever no provider id is offered under two
\* different resolved names (else the first offering in iteration order
\* names a provider the existing directory does not list).
C23_DirectoryIsOrderIndependentWhenNamesAgree ==
    structureCall.stage = "compared" =>
        LET a == structureCall.result[1].providers
            b == structureCall.permutedResult[1].providers
        IN /\ [i \in 1..Len(a) |-> a[i].id] = [i \in 1..Len(b) |-> b[i].id]
           /\ NamesAgree(structureCall.structure) => a = b

\* Three models whose offerings agree on the names were rearranged, models
\* and offerings, and the directory lists three providers.
C23_Witness ==
    /\ structureCall.stage = "compared"
    /\ NamesAgree(structureCall.structure)
    /\ Len(structureCall.structure.models) = 3
    /\ Ids(structureCall.permuted[1].models) # Ids(structureCall.structure.models)
    /\ \E i \in 1..3 : ~Includes(structureCall.structure.models,
                                 structureCall.permuted[1].models[i])
    /\ Len(structureCall.result[1].providers) = 3

(***************************************************************************)
(* Properties of the sources                                               *)
(***************************************************************************)
\* The capability flags as the models.dev API reports them.
UpstreamFlags(record) ==
    [reasoning |-> record.reasoning, toolCalling |-> record.tool_call,
     openWeights |-> record.open_weights]

\* C24: when both sources have returned and run() holds the deduplicated
\* list, every flag an upstream record reported as false is false on the
\* canonical model of that record, whatever the other source reported.
\* (The OpenRouter API reports capabilities only through supported_parameters,
\* never as false.)
C24_UpstreamFalseReachesCanonicalModel ==
    Deduplicated =>
        \A i \in 1..Len(trace) :
            (trace[i].kind = "fetched" /\ trace[i].name = "modelsDevSource") =>
                \A j \in 1..Len(trace[i].wipIn) : \A f \in Flags :
                    LET record == trace[i].wipIn[j]
                    IN UpstreamFlags(record)[f] = "false" =>
                        \A k \in 1..Len(sourceModels) :
                            makeIdComparable(sourceModels[k].id) = RawKey(record.id) =>
                                sourceModels[k][f] = "false"

(***************************************************************************)
(* Properties of concurrent remember calls                                 *)
(***************************************************************************)
\* Some call was made while another call of the cache was awaiting its work
\* function, and by now every call has completed.
OverlappingCallsCompleted ==
    /\ appCache.stage = "cache"
    /\ appCache.file # << >>
    /\ Awaiting = {}
    /\ \E i \in 1..Len(appCache.calls) : appCache.calls[i].inFlight > 0

\* C25: when calls of remember overlapped and all have completed, the file
\* holds, under the key of every call that missed and returned, the result
\* that call stored.
C25_NoUpdateIsLost ==
    OverlappingCallsCompleted =>
        \A i \in 1..Len(appCache.calls) :
            LET call == appCache.calls[i]
            IN (call.invoked /\ call.phase = "returned") =>
                Lookup(appCache.file[1], call.key) = call.result

\* C25, as it holds: when calls of remember overlapped and all have
\* completed, the file holds an entry under every key a call has stored a
\* result for, earlier calls included; the entry is the result of the call
\* that completed last under that key.
C25_LastResultOfEveryKeyIsKept ==
    OverlappingCallsCompleted =>
        /\ \A i \in 1..Len(appCache.calls) :
            LET call == appCache.calls[i]
            IN (call.invoked /\ call.phase = "returned") =>
                /\ call.key \in DOMAIN appCache.file[1]
                /\ call.key \in DOMAIN appCache.stored
        /\ \A key \in DOMAIN appCache.stored :
            Lookup(appCache.file[1], key) = appCache.stored[key]

\* Three calls missed, the second and the third while another call was in
\* flight, two of them under the same key with different results; all have
\* returned and the file holds both keys.
C25_Witness ==
    /\ OverlappingCallsCompleted
    /\ Len(appCache.calls) = 3
    /\ \A i \in 1..3 : appCache.calls[i].invoked /\ appCache.calls[i].phase = "returned"
    /\ appCache.calls[2].inFlight = 1
    /\ appCache.calls[3].inFlight = 2
    /\ \E i, j \in 1..3 :
        /\ appCache.calls[i].key = appCache.calls[j].key
        /\ appCache.calls[i].result # appCache.calls[j].result
    /\ Cardinality(DOMAIN appCache.file[1]) = 2

(***************************************************************************)
(* Properties of runs after earlier runs                                   *)
(***************************************************************************)
\* C26: in the catalog processor returns, in any run of a sequence of runs,
\* no model whose id is in the run's candidate list is flagged deprecated.
C26_DeprecatedOnlyIfMissing ==
    pc \in ReturnedPcs =>
        \A k \in 1..Len(structure.models) :
            structure.models[k].deprecated => structure.models[k].id \notin CandidateIds

(***************************************************************************)
(* Properties of the list deduplicateProviders returns                     *)
(***************************************************************************)
\* C27: the list deduplicateProviders returns holds no two offerings with
\* the same price currency and the same providerId, whatever the order of
\* the argument, also after a merge gave an entry a shorter providerId.
C27_ReturnedOfferingsAreDistinct ==
    providersCall.stage = "returned" =>
        \A i, j \in 1..Len(providersCall.deduplicated) :
            (/\ PriceCurrency(providersCall.deduplicated[i])
                    = PriceCurrency(providersCall.deduplicated[j])
             /\ providersCall.deduplicated[i].providerId
                    = providersCall.deduplicated[j].providerId) => i = j

(***************************************************************************)
(* Properties of the hash map                                              *)
(***************************************************************************)
\* C28: when processor has returned, the hash map holds the content hash of
\* the run's candidate record under every candidate id; under every other
\* id it holds what the hash file held when the run started, no entry less
\* and no entry more.
C28_HashMapFrame ==
    pc \in ReturnedPcs =>
        /\ \A m \in Range(sourceModels) :
              /\ m.id \in DOMAIN hashes
              /\ hashes[m.id] = calculateModelHash(m)
        /\ \A id \in (DOMAIN prev.hashes) \ CandidateIds :
              /\ id \in DOMAIN hashes
              /\ hashes[id] = prev.hashes[id]
        /\ (DOMAIN hashes) \ CandidateIds \subseteq DOMAIN prev.hashes
        /\ DOMAIN prev.hashes \subseteq DOMAIN hashes

\* A second run has returned with a candidate whose content changed, a new
\* candidate, and an entry of the hash file whose id no source delivered.
C28_Witness ==
    /\ pc = "done"
    /\ runs = 2
    /\ \E m \in Range(sourceModels) :
          m.id \in DOMAIN prev.hashes /\ prev.hashes[m.id] # calculateModelHash(m)
    /\ \E m \in Range(sourceModels) : m.id \notin DOMAIN prev.hashes
    /\ (DOMAIN prev.hashes) \ CandidateIds # {}

(***************************************************************************)
(* Properties of repeated runs                                             *)
(***************************************************************************)
\* The run before ended successfully and both sources have returned to the
\* current run what they returned to that one.
SameDataAsBefore ==
    /\ prev.fetched # << >>
    /\ Len(Fetched) = Len(prev.fetched[1])
    /\ Fetched = prev.fetched[1]

\* C29: a run that follows a successful run and receives identical data from
\* its sources invokes no newAndChanged step; the catalog (models and
\* provider directory) and the hash map processor returns, and the two files
\* once written, equal the files the run before has written.
C29_RerunIsFixpoint ==
    SameDataAsBefore =>
        /\ EventsOfKind("step") = << >>
        /\ pc \in ReturnedPcs => (structure = prev.catalog /\ hashes = prev.hashes)
        /\ pc = "done" => (catalogFile = prev.catalog /\ hashFile = prev.hashes)

\* A second run on identical data has written both files; the catalog holds
\* two models, one with translated descriptions, and a provider directory.
C29_Witness ==
    /\ SameDataAsBefore
    /\ pc = "done"
    /\ Len(sourceModels) = 2
    /\ \E k \in 1..Len(catalogFile.models) :
          /\ catalogFile.models[k].description # << >>
          /\ catalogFile.models[k].description[1].de # << >>
    /\ catalogFile.providers # << >>

(***************************************************************************)
(* Properties of free-tier records                                         *)
(***************************************************************************)
\* The models of a returned list that stand for a free-tier argument record:
\* those that carry the record's id without the suffix as an alias.
FreeCanonicalOf(record, result) ==
    {k \in 1..Len(result) : Includes(result[k].aliases, StripFree(record).id)}

\* Every offering of every free-tier argument record is listed, by provider
\* and currency, in freeProviders of the record's canonical model, and is
\* not an entry of its providers.
FreeOfferingsAreFiled(result) ==
    \A i \in 1..Len(dedupCall.models) :
        isFreeModel(dedupCall.models[i]) =>
            /\ FreeCanonicalOf(dedupCall.models[i], result) # {}
            /\ \A k \in FreeCanonicalOf(dedupCall.models[i], result) :
                \A o \in Range(dedupCall.models[i].providers) :
                    /\ \E f \in Range(OrEmpty(result[k].freeProviders)) :
                          /\ f.providerId = o.providerId
                          /\ PriceCurrency(f) = PriceCurrency(o)
                    /\ ~Includes(result[k].providers, o)

\* C30: when deduplicateModels returns, every offering of a record whose id
\* ends in ':free' (in any case) is in freeProviders of its canonical model
\* and not in providers, wherever the record stands in its key class; the
\* same holds of the list a second call returns for the returned list.
C30_FreeOfferingsGoToFreeProviders ==
    /\ DedupReturned => FreeOfferingsAreFiled(dedupCall.result)
    /\ dedupCall.stage = "returnedAgain" => FreeOfferingsAreFiled(dedupCall.twice)

=============================================================================
